---- MODULE Spec2Model ----
(***************************************************************************)
(* Goal-conditioned manipulation environments (contactrika/gym):           *)
(* transform library, goal/reward evaluator, reset and step procedures.    *)
(*                                                                         *)
(* Number representation (all values are integers):                        *)
(*   - lengths are in millimetres (0.05 -> 50), fixed point 1/1000;        *)
(*   - angles are in milliradians, in whole multiples of pi/3 -> 1047       *)
(*     (pi -> 3141), rewards in 1/1000;                                    *)
(*   - a quaternion component is in half units (1.0 -> 2, 0.5 -> 1), so    *)
(*     the 24 Hurwitz unit quaternions (+-1, +-i, +-j, +-k and             *)
(*     (+-1 +-i +-j +-k)/2) are exact and closed under quat_mul;           *)
(*   - positions used by the transform library are plain integers.         *)
(***************************************************************************)
EXTENDS Integers, Sequences, FiniteSets, TLC

VARIABLES
    cfg,    \* constructor arguments of the environment (fixed after __init__)
    sim,    \* state of the external simulator (qpos, qvel, mocap, ...)
    env,    \* mutable attributes of the environment object
    pc,     \* position of the running call
    args,   \* arguments of the running call (the caller's arrays)
    ret,    \* value returned by the last call
    hist    \* history of calls (ghost)

vars == <<cfg, sim, env, pc, args, ret, hist>>

None == "None"

----------------------------------------------------------------------------
(* Bounds of the model *)

\* positions given to the transform library have coordinates in -MaxCoord..MaxCoord
MaxCoord == 1

\* passes of the loop of one MovingHandEnv reset that are counted
MaxPasses == 3

\* positions of a random source before its stream repeats
RngPeriod == 4

\* resets of one YumiEnv that are counted (later ones are made, not counted)
MaxResets == 2
\* the largest iteration budget (max_steps) given to _move_arms
MaxSteps == 13

----------------------------------------------------------------------------
(* numpy helpers *)

Abs(x) == IF x < 0 THEN -x ELSE x

Sq(x) == x * x

\* np.clip
Clip(x, lo, hi) == IF x < lo THEN lo ELSE IF x > hi THEN hi ELSE x

\* floor of the square root by bisection (exact on the inputs the model draws)
RECURSIVE SqrtSearch(_, _, _)
SqrtSearch(n, lo, hi) ==
    IF lo = hi THEN lo
    ELSE LET mid == (lo + hi + 1) \div 2
         IN  IF mid * mid <= n THEN SqrtSearch(n, mid, hi) ELSE SqrtSearch(n, lo, mid - 1)

ISqrt(n) == SqrtSearch(n, 0, IF n < 40000 THEN n ELSE 40000)

\* v[..., :3] and v[..., 3:] of a pose
Pos(pose) == SubSeq(pose, 1, 3)
Quat(pose) == SubSeq(pose, 4, 7)

VAdd(a, b) == [i \in DOMAIN a |-> a[i] + b[i]]
VSub(a, b) == [i \in DOMAIN a |-> a[i] - b[i]]

----------------------------------------------------------------------------
(* gym.envs.robotics.rotations, quaternions scalar first, in half units *)

\* rotations.quat_identity(): [1, 0, 0, 0]
quat_identity == <<2, 0, 0, 0>>

\* rotations.quat_conjugate(q): [w, -x, -y, -z]
quat_conjugate(q) == <<q[1], -q[2], -q[3], -q[4]>>

\* rotations.quat_mul(q0, q1): the Hamilton product; the product of two
\* half-unit representations carries a factor 4, one factor 2 is removed
quat_mul(q0, q1) ==
    << (q0[1]*q1[1] - q0[2]*q1[2] - q0[3]*q1[3] - q0[4]*q1[4]) \div 2,
       (q0[1]*q1[2] + q0[2]*q1[1] + q0[3]*q1[4] - q0[4]*q1[3]) \div 2,
       (q0[1]*q1[3] + q0[3]*q1[1] + q0[4]*q1[2] - q0[2]*q1[4]) \div 2,
       (q0[1]*q1[4] + q0[4]*q1[1] + q0[2]*q1[3] - q0[3]*q1[2]) \div 2 >>

\* rotations.quat_rot_vec(q, v0): q_v0 = [0, v0]; q * (q_v0 * conj(q)); [1:]
quat_rot_vec(q, v0) ==
    LET q_v0 == <<0, 2 * v0[1], 2 * v0[2], 2 * v0[3]>>
        q_v  == quat_mul(q, quat_mul(q_v0, quat_conjugate(q)))
    IN  <<q_v[2] \div 2, q_v[3] \div 2, q_v[4] \div 2>>

----------------------------------------------------------------------------
(* gym/utils/transformations.py *)

\* get_tf(world_to_b, world_to_a): "Returns a_to_b pose"
get_tf(world_to_b, world_to_a) ==
    LET pos_tf0 == VSub(Pos(world_to_b), Pos(world_to_a))
        q       == quat_mul(quat_identity, quat_conjugate(Quat(world_to_a)))
        pos_tf  == quat_rot_vec(q, pos_tf0)
        quat_tf == quat_mul(Quat(world_to_b), quat_conjugate(Quat(world_to_a)))
    IN  pos_tf \o quat_tf

\* apply_tf(a_to_b, world_to_a): "Returns world_to_b pose"
apply_tf(a_to_b, world_to_a) ==
    LET pos_only == Len(world_to_a) = 3
        w  == IF Len(world_to_a) = 3 THEN world_to_a \o quat_identity ELSE world_to_a
        a  == IF Len(a_to_b) = 3 THEN a_to_b \o quat_identity ELSE a_to_b
        new_pos  == VAdd(Pos(w), quat_rot_vec(Quat(w), Pos(a)))
        new_quat == quat_mul(Quat(w), Quat(a))
    IN  IF pos_only THEN new_pos ELSE new_pos \o new_quat

----------------------------------------------------------------------------
(* Inputs of the transform library *)

\* the 24 Hurwitz unit quaternions, in half units (norm^2 = 4)
UnitQuats ==
    {q \in (-2..2) \X (-2..2) \X (-2..2) \X (-2..2) :
        Sq(q[1]) + Sq(q[2]) + Sq(q[3]) + Sq(q[4]) = 4}

Coords == (-MaxCoord)..MaxCoord

----------------------------------------------------------------------------
(* Specification of the transform library: apply_tf, then get_tf on its    *)
(* result with the same reference pose.                                    *)

NoSim == [kind |-> "none"]
NoEnv == [kind |-> "none"]

InitTf ==
    /\ cfg = [kind |-> "tf"]
    /\ sim = NoSim
    /\ env = NoEnv
    /\ pc = "start"
    /\ \E p \in Coords \X Coords \X Coords, pq \in UnitQuats,
          \* positions of the reference pose
          w \in {<<0, 0, 0>>, <<1, -1, 0>>}, wq \in UnitQuats :
          args = [a_to_b |-> p \o pq, world_to_a |-> w \o wq]
    /\ ret = None
    /\ hist = <<>>

\* world_to_b = apply_tf(a_to_b, world_to_a)
CallApplyTf ==
    /\ pc = "start"
    /\ ret' = apply_tf(args.a_to_b, args.world_to_a)
    /\ pc' = "applied"
    /\ UNCHANGED <<cfg, sim, env, args, hist>>

\* a_to_b = get_tf(world_to_b, world_to_a)
CallGetTf ==
    /\ pc = "applied"
    /\ ret' = get_tf(ret, args.world_to_a)
    /\ pc' = "done"
    /\ hist' = <<ret>>
    /\ UNCHANGED <<cfg, sim, env, args>>

NextTf == CallApplyTf \/ CallGetTf

SpecTf == InitTf /\ [][NextTf]_vars

\* C1: for every pose p and reference pose w with unit quaternions,
\* get_tf(apply_tf(p, w), w) equals p in its position and orientation part.
C1_RoundTrip ==
    pc = "done" => ret = args.a_to_b


----------------------------------------------------------------------------
(* Goal / reward evaluator *)

\* np.linalg.norm(v, axis=-1), in the unit of v
Norm(v) == ISqrt(Sq(v[1]) + Sq(v[2]) + Sq(v[3]))

\* np.linalg.norm of a 6-vector (both grippers)
Norm6(v) == ISqrt(Sq(v[1]) + Sq(v[2]) + Sq(v[3]) + Sq(v[4]) + Sq(v[5]) + Sq(v[6]))

\* 2 * np.arccos(np.clip(w, -1., 1.)) in milliradians, w in half units:
\* w = -1 -> 2 pi, -0.5 -> 4 pi / 3, 0 -> pi, 0.5 -> 2 pi / 3, 1 -> 0
TwoArccos(w) ==
    LET c == Clip(w, -2, 2)
    IN  CASE c = -2 -> 6282
          [] c = -1 -> 4188
          [] c = 0  -> 3141
          [] c = 1  -> 2094
          [] c = 2  -> 0

\* move.py _goal_distance(goal_a, goal_b, ignore_target_rotation) -> (d_pos, d_rot)
goal_distance(goal_a, goal_b, ignore_target_rotation) ==
    LET delta_pos == VSub(Pos(goal_a), Pos(goal_b))
        d_pos     == Norm(delta_pos)
        quat_diff == quat_mul(Quat(goal_a), quat_conjugate(Quat(goal_b)))
        d_rot     == IF ~ignore_target_rotation THEN TwoArccos(quat_diff[1]) ELSE 0
    IN  <<d_pos, d_rot>>

\* mutant: the thresholds compared with <= instead of <
Mut_is_success_inclusive(self, achieved_goal, desired_goal) ==
    LET d == goal_distance(SubSeq(achieved_goal, 1, 7), SubSeq(desired_goal, 1, 7),
                           self.ignore_target_rotation)
        achieved_pos == IF d[1] <= self.distance_threshold THEN 1 ELSE 0
        achieved_rot == IF d[2] <= self.rotation_threshold THEN 1 ELSE 0
        achieved_all == achieved_pos * achieved_rot
        achieved_grasp == IF achieved_goal[8] <= 80 THEN 1 ELSE 0
    IN  IF self.success_on_grasp_only THEN achieved_all * achieved_grasp ELSE achieved_all

\* MovingHandEnv._is_success(achieved_goal, desired_goal)
MovingHandEnv_is_success(self, achieved_goal, desired_goal) ==
    LET d == goal_distance(SubSeq(achieved_goal, 1, 7), SubSeq(desired_goal, 1, 7),
                           self.ignore_target_rotation)
        achieved_pos == IF d[1] < self.distance_threshold THEN 1 ELSE 0
        achieved_rot == IF d[2] < self.rotation_threshold THEN 1 ELSE 0
        achieved_all == achieved_pos * achieved_rot
        d_palm       == achieved_goal[8]
        achieved_grasp == IF d_palm < 80 THEN 1 ELSE 0
    IN  IF self.success_on_grasp_only THEN achieved_all * achieved_grasp ELSE achieved_all

\* (info or dict()).get('weights'): <<>> stands for None, <<w>> for weights w
InfoWeights(info) == IF info.is_none THEN <<>> ELSE info.weights

\* mutant: the weights applied after the -1 offset
Mut_compute_reward_weights_last(self, achieved_goal, goal, info) ==
    IF self.reward_type = "sparse"
    THEN LET success == 1000 * MovingHandEnv_is_success(self, achieved_goal, goal)
             weights == InfoWeights(info)
         IN  IF weights # <<>> THEN ((success - 1000) * weights[1]) \div 1000
             ELSE success - 1000
    ELSE LET d == goal_distance(achieved_goal, goal, self.ignore_target_rotation)
         IN  -(10 * d[1] + d[2])

\* mutant: the position distance not weighted by 10
Mut_compute_reward_unweighted(self, achieved_goal, goal, info) ==
    IF self.reward_type = "sparse"
    THEN LET success0 == 1000 * MovingHandEnv_is_success(self, achieved_goal, goal)
             weights  == InfoWeights(info)
             success  == IF weights # <<>> THEN (success0 * weights[1]) \div 1000 ELSE success0
         IN  success - 1000
    ELSE LET d == goal_distance(achieved_goal, goal, self.ignore_target_rotation)
         IN  -(d[1] + d[2])

\* MovingHandEnv.compute_reward(achieved_goal, goal, info), in 1/1000
MovingHandEnv_compute_reward(self, achieved_goal, goal, info) ==
    IF self.reward_type = "sparse"
    THEN LET success0 == 1000 * MovingHandEnv_is_success(self, achieved_goal, goal)
             weights  == InfoWeights(info)
             success  == IF weights # <<>> THEN (success0 * weights[1]) \div 1000 ELSE success0
         IN  success - 1000
    ELSE LET d == goal_distance(achieved_goal, goal, self.ignore_target_rotation)
         IN  -(10 * d[1] + d[2])

\* _PickAndPlaceEnv._goal_distance(goal_a, goal_b) -> (d_pos, d_rot)
PickAndPlaceEnv_goal_distance(self, goal_a, goal_b) ==
    LET delta_pos == VSub(Pos(goal_a), Pos(goal_b))
        d_pos     == Norm(delta_pos)
        quat_diff == quat_mul(Quat(goal_a), quat_conjugate(Quat(goal_b)))
        d_rot     == IF ~self.ignore_target_rotation THEN TwoArccos(quat_diff[1]) ELSE 0
    IN  <<d_pos, d_rot>>

\* _PickAndPlaceEnv._is_success(achieved_goal, desired_goal)
PickAndPlaceEnv_is_success(self, achieved_goal, desired_goal) ==
    LET d == PickAndPlaceEnv_goal_distance(self, achieved_goal, desired_goal)
        achieved_pos == IF d[1] < self.distance_threshold THEN 1 ELSE 0
        achieved_rot == IF d[2] < self.rotation_threshold THEN 1 ELSE 0
    IN  achieved_pos * achieved_rot

\* _PickAndPlaceEnv.compute_reward(achieved_goal, goal, info), in 1/1000
PickAndPlaceEnv_compute_reward(self, achieved_goal, goal, info) ==
    IF self.reward_type = "sparse"
    THEN 1000 * PickAndPlaceEnv_is_success(self, achieved_goal, goal) - 1000
    ELSE LET d == PickAndPlaceEnv_goal_distance(self, achieved_goal, goal)
         IN  -(10 * d[1] + d[2])

\* YumiEnv.has_left_arm, has_right_arm, has_two_arms
has_left_arm(self) == self.arm = "left" \/ self.arm = "both"
has_right_arm(self) == self.arm = "right" \/ self.arm = "both"
has_two_arms(self) == self.arm = "both"

BoolToInt(b) == IF b THEN 1 ELSE 0

\* YumiEnv._is_success(achieved_goal, desired_goal): the norm runs over all
\* entries given, one gripper position (3) or both (6)
YumiEnv_is_success(self, achieved_goal, desired_goal) ==
    LET delta == [i \in 1..Len(achieved_goal) |-> achieved_goal[i] - desired_goal[i]]
        d == IF Len(delta) = 6 THEN Norm6(delta) ELSE Norm(delta)
    IN  IF d < self.distance_threshold THEN 1 ELSE 0

\* YumiEnv.compute_reward(achieved_goal, desired_goal, info), in 1/1000
YumiEnv_compute_reward(self, achieved_goal, desired_goal, info) ==
    IF self.reward_type = "sparse"
    THEN IF self.has_object
         THEN "NotImplementedError"
         ELSE LET success_l == BoolToInt(has_left_arm(self)) *
                     YumiEnv_is_success(self, SubSeq(achieved_goal, 1, 3), SubSeq(desired_goal, 1, 3))
                  success_r == BoolToInt(has_right_arm(self)) *
                     YumiEnv_is_success(self, SubSeq(achieved_goal, 4, 6), SubSeq(desired_goal, 4, 6))
                  success == success_l + success_r
              IN  IF has_two_arms(self) THEN 1000 * (success - 2) ELSE 1000 * (success - 1)
    ELSE -Norm6(VSub(achieved_goal, desired_goal))

\* yumi_constrained.py _goal_distance(goal_a, goal_b) -> d_pos
Constrained_goal_distance(goal_a, goal_b) == Norm(VSub(Pos(goal_a), Pos(goal_b)))

\* YumiConstrainedEnv._is_success(achieved_goal, desired_goal)
YumiConstrainedEnv_is_success(self, achieved_goal, desired_goal) ==
    IF Constrained_goal_distance(achieved_goal, desired_goal) < self.distance_threshold
    THEN 1 ELSE 0

\* YumiConstrainedEnv.compute_reward(achieved_goal, goal, info), in 1/1000
YumiConstrainedEnv_compute_reward(self, achieved_goal, goal, info) ==
    IF self.reward_type = "sparse"
    THEN 1000 * YumiConstrainedEnv_is_success(self, achieved_goal, goal) - 1000
    ELSE -Constrained_goal_distance(achieved_goal, goal)

\* env._is_success of the environment class self.kind
is_success(self, achieved_goal, desired_goal) ==
    CASE self.kind = "MovingHandEnv" -> MovingHandEnv_is_success(self, achieved_goal, desired_goal)
      [] self.kind = "PickAndPlaceEnv" -> PickAndPlaceEnv_is_success(self, achieved_goal, desired_goal)
      [] self.kind = "YumiEnv" -> YumiEnv_is_success(self, achieved_goal, desired_goal)
      [] self.kind = "YumiConstrainedEnv" -> YumiConstrainedEnv_is_success(self, achieved_goal, desired_goal)

\* mutant: the reward computed against self.goal, not the goal argument
Mut_compute_reward_self_goal(self, achieved_goal, goal, info) ==
    LET own == <<25 * self.goal, 0, 0>> \o SubSeq(goal, 4, Len(goal))
    IN  CASE self.kind = "MovingHandEnv" -> MovingHandEnv_compute_reward(self, achieved_goal, own, info)
          [] self.kind = "PickAndPlaceEnv" -> PickAndPlaceEnv_compute_reward(self, achieved_goal, own, info)
          [] self.kind = "YumiEnv" -> YumiEnv_compute_reward(self, achieved_goal, own, info)
          [] self.kind = "YumiConstrainedEnv" -> YumiConstrainedEnv_compute_reward(self, achieved_goal, own, info)

\* env.compute_reward of the environment class self.kind
compute_reward(self, achieved_goal, goal, info) ==
    CASE self.kind = "MovingHandEnv" -> MovingHandEnv_compute_reward(self, achieved_goal, goal, info)
      [] self.kind = "PickAndPlaceEnv" -> PickAndPlaceEnv_compute_reward(self, achieved_goal, goal, info)
      [] self.kind = "YumiEnv" -> YumiEnv_compute_reward(self, achieved_goal, goal, info)
      [] self.kind = "YumiConstrainedEnv" -> YumiConstrainedEnv_compute_reward(self, achieved_goal, goal, info)

\* mutant: the in-place product written the other way round, weights *= success
Mut_compute_reward_writes_weights(self, achieved_goal, goal, info) ==
    LET achieved_all == "new"
        in_is_success == IF self.kind = "MovingHandEnv" /\ self.success_on_grasp_only
                         THEN {achieved_all} ELSE {}
        success == "new"
        weights == "weights"
        in_compute_reward ==
            IF self.kind = "MovingHandEnv" /\ InfoWeights(info) # <<>> THEN {weights} ELSE {}
        written == IF self.reward_type = "sparse" THEN in_is_success \cup in_compute_reward ELSE {}
        product == (1000 * MovingHandEnv_is_success(self, achieved_goal, goal)
                        * InfoWeights(info)[1]) \div 1000
    IN  [achieved_goal |-> achieved_goal,
         goal          |-> goal,
         info          |-> IF weights \in written
                           THEN [info EXCEPT !.weights = <<product>>] ELSE info]

\* the arrays behind the arguments after env.compute_reward returned. Every
\* name of the bodies is bound to the array it names, one of the arguments
\* ("achieved_goal", "goal", "weights") or "new" for an array the body
\* allocated, and an in-place statement writes the array its left side names.
\* The in-place statements are `achieved_all *= achieved_grasp` in
\* MovingHandEnv._is_success (achieved_all is the product achieved_pos *
\* achieved_rot, a new array) and `success *= weights` in
\* MovingHandEnv.compute_reward (success is the copy astype returns); the slices
\* achieved_goal[..., :7] are views that are only read, and the bodies of the
\* other classes have no in-place statement and no item assignment.
compute_reward_writes(self, achieved_goal, goal, info) ==
    LET achieved_all == "new"
        in_is_success == IF self.kind = "MovingHandEnv" /\ self.success_on_grasp_only
                         THEN {achieved_all} ELSE {}
        success == "new"
        weights == "weights"
        in_compute_reward ==
            IF self.kind = "MovingHandEnv" /\ InfoWeights(info) # <<>> THEN {success} ELSE {}
        written == IF self.reward_type = "sparse" THEN in_is_success \cup in_compute_reward ELSE {}
        product == (1000 * MovingHandEnv_is_success(self, achieved_goal, goal)
                        * InfoWeights(info)[1]) \div 1000
    IN  [achieved_goal |-> achieved_goal,
         goal          |-> goal,
         info          |-> IF weights \in written
                           THEN [info EXCEPT !.weights = <<product>>] ELSE info]


----------------------------------------------------------------------------
(* Constructors: the flag combinations __init__ accepts *)

\* MovingHandEnv.__init__: the ValueError checks
MovingHandEnv_init_accepts(c) ==
    /\ ~(c.grasp_state # None /\ c.grasp_state_reset_p <= 0)
    /\ ~(c.ignore_rotation_ctrl /\ ~c.ignore_target_rotation)
    /\ c.success_on_grasp_only => (c.reward_type = "sparse" /\ c.has_object)

\* YumiEnv.__init__: the ValueError checks
YumiEnv_init_accepts(c) ==
    /\ c.arm \in {"right", "left", "both"}
    /\ c.reward_type \in {"sparse", "dense"}

\* MovingHandEnv.__init__ with the simulator created before the checks
Mut_init_checks_after_sim(a, file_exists) ==
    LET loads == a.grasp_state = "True"
        c == [a EXCEPT !.grasp_state = IF loads THEN "snapshot" ELSE @]
    IN  IF loads /\ ~file_exists
        THEN [raised |-> "IOError", sim_created |-> TRUE]
        ELSE IF ~MovingHandEnv_init_accepts(c)
        THEN [raised |-> "ValueError", sim_created |-> TRUE]
        ELSE IF ~a.has_object
        THEN [raised |-> "TypeError", sim_created |-> TRUE]
        ELSE [raised |-> None, sim_created |-> TRUE]

\* MovingHandEnv.__init__ with the arguments a: grasp_state is None, a
\* snapshot, or the booleans "True" / "False"; True loads the snapshot file
\* (lines 86-91), file_exists tells whether it is there. Without an object
\* xml_format stays None (line 109) and the assignment of its finger entries
\* (lines 167-171) raises TypeError. HandEnv.__init__ (line 174) creates the
\* simulator.
MovingHandEnv_init(a, file_exists) ==
    LET loads == a.grasp_state = "True"
        c == [a EXCEPT !.grasp_state = IF loads THEN "snapshot" ELSE @]
    IN  IF loads /\ ~file_exists
        THEN [raised |-> "IOError", sim_created |-> FALSE]
        ELSE IF ~MovingHandEnv_init_accepts(c)
        THEN [raised |-> "ValueError", sim_created |-> FALSE]
        ELSE IF ~a.has_object
        THEN [raised |-> "TypeError", sim_created |-> FALSE]
        ELSE [raised |-> None, sim_created |-> TRUE]

\* YumiEnv.__init__: RobotEnv.__init__ (line 54) creates the simulator and then
\* samples the first goal, which raises with an object (_sample_goal, line 187)
YumiEnv_init(a) ==
    IF ~YumiEnv_init_accepts(a)
    THEN [raised |-> "ValueError", sim_created |-> FALSE]
    ELSE IF a.has_object
    THEN [raised |-> "NotImplementedError", sim_created |-> TRUE]
    ELSE [raised |-> None, sim_created |-> TRUE]

\* YumiConstrainedEnv(...): the module does not import. Line 6 imports
\* YumiTask from yumi_env, which does not define it: ImportError whatever the
\* arguments, and nothing is constructed. (Were the name there, __init__,
\* lines 28-31, would hand YumiEnv.__init__ the keywords task, object_id and
\* randomize_initial_object_pos, none of which it takes.)
YumiConstrainedEnv_init(a) == [raised |-> "ImportError", sim_created |-> FALSE]

----------------------------------------------------------------------------
(* Inputs of the goal / reward evaluator *)

\* distance_threshold values given to the constructors (0.05 is the default
\* of MovingHandEnv, YumiReachEnv and YumiConstrainedEnv)
DistanceThresholds == {50, 75}

\* goal positions lie on the x axis, k * (0.025, 0, 0). The desired positions
\* are the origin and 0.5: against the origin the difference and its norm are
\* the achieved coordinate itself, so a distance of 0.05 or 0.075 is equal to
\* the threshold in the code's doubles too; against 0.5 every distance is 0
\* or far above the thresholds.
GoalPos(k) == <<25 * k, 0, 0>>

AchievedSteps == {0, 2, 3, 20}
DesiredSteps == {0, 20}

\* orientation parts: all zeros (what _sample_goal and an ignored rotation
\* give), and unit quaternions 1, -1, i, (1+i+j+k)/2
AchievedQuats == {<<0, 0, 0, 0>>, <<2, 0, 0, 0>>, <<-2, 0, 0, 0>>, <<0, 2, 0, 0>>, <<1, 1, 1, 1>>}
DesiredQuats == {<<0, 0, 0, 0>>, <<2, 0, 0, 0>>, <<1, 1, 1, 1>>}

\* info arguments: None, a dict without 'weights', weights 0.5 and 2.0
\* (only MovingHandEnv reads info)
Infos(c) ==
    IF c.kind = "MovingHandEnv"
    THEN {[is_none |-> TRUE, weights |-> <<>>], [is_none |-> FALSE, weights |-> <<>>],
          [is_none |-> FALSE, weights |-> <<500>>], [is_none |-> FALSE, weights |-> <<2000>>]}
    ELSE {[is_none |-> TRUE, weights |-> <<>>], [is_none |-> FALSE, weights |-> <<500>>]}

MovingHandEnv_reward_configs ==
    {c \in [kind : {"MovingHandEnv"}, reward_type : {"sparse", "dense"},
            has_object : BOOLEAN, ignore_target_rotation : BOOLEAN,
            ignore_rotation_ctrl : {FALSE}, success_on_grasp_only : BOOLEAN,
            grasp_state : {None}, grasp_state_reset_p : {0},
            distance_threshold : DistanceThresholds, rotation_threshold : {100}] :
        MovingHandEnv_init_accepts(c)}

\* _PickAndPlaceEnv.__init__ sets has_object = True, ignore_target_rotation = False
PickAndPlaceEnv_reward_configs ==
    [kind : {"PickAndPlaceEnv"}, reward_type : {"sparse", "dense"},
     has_object : {TRUE}, ignore_target_rotation : {FALSE},
     distance_threshold : DistanceThresholds, rotation_threshold : {100}]

\* YumiEnv: has_object = True cannot be constructed (_sample_goal raises
\* NotImplementedError while the base class is initialised)
YumiEnv_reward_configs ==
    {c \in [kind : {"YumiEnv"}, reward_type : {"sparse", "dense"},
            arm : {"left", "right", "both"}, has_object : {FALSE},
            distance_threshold : DistanceThresholds] :
        YumiEnv_init_accepts(c)}

RewardConfigs ==
    MovingHandEnv_reward_configs \cup PickAndPlaceEnv_reward_configs
        \cup YumiEnv_reward_configs
        \cup [kind : {"YumiConstrainedEnv"}, reward_type : {"sparse", "dense"},
              distance_threshold : DistanceThresholds]

\* the (achieved_goal, desired_goal) pairs of one configuration
GoalPairs(c) ==
    CASE c.kind = "MovingHandEnv" /\ c.success_on_grasp_only ->
            {<<GoalPos(a) \o qa \o <<d>>, GoalPos(g) \o qg \o <<0>>>> :
                a \in AchievedSteps, g \in DesiredSteps, <<qa, qg>> \in AchievedQuats \X DesiredQuats,
                \* palm-to-object distances (8th component of the achieved goal)
                d \in {79, 80}}
      [] c.kind \in {"MovingHandEnv", "PickAndPlaceEnv"} /\ ~(c.kind = "MovingHandEnv" /\ c.success_on_grasp_only) ->
            {<<GoalPos(a) \o qa, GoalPos(g) \o qg>> :
                a \in AchievedSteps, g \in DesiredSteps, qa \in AchievedQuats, qg \in DesiredQuats}
      [] c.kind = "YumiEnv" ->
            {<<GoalPos(al) \o GoalPos(ar), GoalPos(gl) \o GoalPos(gr)>> :
                al \in {0, 3}, ar \in {0, 4}, gl \in {0, 3}, gr \in {0, 4}}
      [] c.kind = "YumiConstrainedEnv" ->
            {<<GoalPos(a), GoalPos(g)>> : a \in AchievedSteps, g \in DesiredSteps}

----------------------------------------------------------------------------
(* Specification of the goal / reward evaluator: _is_success and           *)
(* compute_reward are called on given arrays, with steps and resets of the *)
(* environment in between.                                                 *)

InitReward ==
    /\ cfg \in RewardConfigs
    /\ sim = [state |-> 0]
    /\ env = [goal |-> 0]
    /\ pc = "new"
    /\ \E g \in GoalPairs(cfg), i \in Infos(cfg) :
          args = [achieved_goal |-> g[1], goal |-> g[2], info |-> i]
    /\ ret = None
    /\ hist = [called |-> FALSE, first |-> 0, activity |-> FALSE]

\* self._is_success(achieved_goal, desired_goal)
CallIsSuccess ==
    /\ pc \notin {"new", "raised"}
    /\ ret' = is_success(cfg, args.achieved_goal, args.goal)
    /\ pc' = "is_success"
    /\ UNCHANGED <<cfg, sim, env, args, hist>>

\* self.compute_reward(achieved_goal, goal, info). self is the whole instance:
\* the attributes the constructor set together with what steps and resets
\* change, self.goal and the state of self.sim. The arrays behind the
\* arguments are what the body leaves in them. The bodies assign no attribute
\* and call nothing of self.sim.
CallComputeReward ==
    /\ pc \notin {"new", "raised"}
    /\ LET self == cfg @@ [goal |-> env.goal, sim_state |-> sim.state]
       IN  /\ ret' = compute_reward(self, args.achieved_goal, args.goal, args.info)
           /\ args' = compute_reward_writes(self, args.achieved_goal, args.goal, args.info)
    /\ pc' = "compute_reward"
    /\ hist' = IF ~hist.called THEN [hist EXCEPT !.called = TRUE, !.first = ret'] ELSE hist
    /\ UNCHANGED <<cfg, sim, env>>

\* a step or a reset between two calls: what it may leave in the simulator
\* and in env.goal
EnvActivity ==
    /\ pc \notin {"new", "raised"}
    /\ \E s \in {0, 1}, g \in DesiredSteps :
          /\ sim' = [state |-> s]
          /\ env' = [goal |-> g]
    /\ pc' = "env"
    /\ hist' = [hist EXCEPT !.activity = hist.called]
    /\ UNCHANGED <<cfg, args, ret>>

\* the constructor of the environment class runs on the configuration.
\* _PickAndPlaceEnv has no check of its own.
ConstructEnv ==
    /\ pc = "new"
    /\ LET r == CASE cfg.kind = "MovingHandEnv" -> MovingHandEnv_init(cfg, TRUE)
                  [] cfg.kind = "YumiEnv" -> YumiEnv_init(cfg)
                  [] cfg.kind = "YumiConstrainedEnv" -> YumiConstrainedEnv_init(cfg)
                  [] OTHER -> [raised |-> None, sim_created |-> TRUE]
       IN  /\ pc' = IF r.raised = None THEN "start" ELSE "raised"
           /\ ret' = r.raised
    /\ UNCHANGED <<cfg, sim, env, args, hist>>

NextReward == ConstructEnv \/ CallIsSuccess \/ CallComputeReward \/ EnvActivity

SpecReward == InitReward /\ [][NextReward]_vars


----------------------------------------------------------------------------
(* Properties of the goal / reward evaluator *)

\* the distances of the arguments of the running call
ArgDPos == Norm(VSub(Pos(args.achieved_goal), Pos(args.goal)))
ArgDRot ==
    IF cfg.kind \in {"MovingHandEnv", "PickAndPlaceEnv"} /\ ~cfg.ignore_target_rotation
    THEN TwoArccos(quat_mul(Quat(args.achieved_goal), quat_conjugate(Quat(args.goal)))[1])
    ELSE 0
ArgGrasped ==
    (cfg.kind = "MovingHandEnv" /\ cfg.success_on_grasp_only) => args.achieved_goal[8] < 80
ArgNoWeights == InfoWeights(args.info) = <<>>

\* C2: _is_success of MovingHandEnv and YumiConstrainedEnv returns 1 exactly
\* when d_pos < distance_threshold and d_rot < rotation_threshold (strictly)
\* and, with success_on_grasp_only, the 8th achieved component is < 0.08; it
\* returns 0 otherwise (YumiConstrainedEnv goals have no rotation: d_rot = 0).
\* No YumiConstrainedEnv can be constructed, so its method is evaluated on the
\* positions of every call with the threshold of the configuration.
C2_IsSuccess ==
    /\ (pc = "is_success" /\ cfg.kind = "MovingHandEnv") =>
          /\ ret \in {0, 1}
          /\ ret = 1 <=>
                /\ ArgDPos < cfg.distance_threshold
                /\ ArgDRot < cfg.rotation_threshold
                /\ ArgGrasped
    /\ pc = "is_success" =>
          LET s == YumiConstrainedEnv_is_success(
                       cfg, Pos(args.achieved_goal), Pos(args.goal))
          IN  s \in {0, 1} /\ (s = 1 <=> ArgDPos < cfg.distance_threshold)

\* a distance equal to the threshold, everything else fine: a failure
C2_Witness ==
    /\ pc = "is_success" /\ cfg.kind = "MovingHandEnv" /\ cfg.success_on_grasp_only
    /\ ArgDPos = cfg.distance_threshold /\ ArgDRot < cfg.rotation_threshold /\ ArgGrasped
    /\ ret = 0

\* C3 as amended: sparse compute_reward is in {-1, 0} in MovingHandEnv without
\* weights, _PickAndPlaceEnv, one-armed YumiEnv and YumiConstrainedEnv; with
\* weights w MovingHandEnv returns w * is_success - 1 (-1 on failure); the
\* two-armed YumiEnv returns (grippers at their goal) - 2, in {-2, -1, 0}.
C3_SparseRange ==
    (pc = "compute_reward" /\ cfg.reward_type = "sparse") =>
        /\ CASE cfg.kind = "MovingHandEnv" ->
                  LET ok == ArgDPos < cfg.distance_threshold /\ ArgDRot < cfg.rotation_threshold
                            /\ ArgGrasped
                  IN  IF ArgNoWeights THEN ret \in {-1000, 0} /\ (ret = 0 <=> ok)
                      ELSE ret = (IF ok THEN InfoWeights(args.info)[1] ELSE 0) - 1000
             [] cfg.kind = "YumiEnv" /\ cfg.arm = "both" -> ret \in {-2000, -1000, 0}
             [] OTHER -> ret \in {-1000, 0}
        /\ YumiConstrainedEnv_compute_reward(
               cfg, Pos(args.achieved_goal), Pos(args.goal), args.info) \in {-1000, 0}

\* a weighted success: reward 2 * 1 - 1 = 1
C3_Witness ==
    /\ pc = "compute_reward" /\ cfg.reward_type = "sparse" /\ cfg.kind = "MovingHandEnv"
    /\ InfoWeights(args.info) = <<2000>>
    /\ ret = 1000

\* C3 as stated: the sparse reward is in {-1, 0} for every info and environment
C3_SparseAlwaysMinusOneOrZero ==
    (pc = "compute_reward" /\ cfg.reward_type = "sparse") => ret \in {-1000, 0}

\* C4: in the reach task (MovingHandEnv without object), when the achieved goal
\* equals the desired goal component for component, _is_success returns 1 and
\* the sparse compute_reward (no weights) returns 0: the reach environment is
\* there to be called, and the calls return these values.
C4_AtGoalSucceeds ==
    (cfg.kind = "MovingHandEnv" /\ ~cfg.has_object /\ args.achieved_goal = args.goal
        /\ pc # "new") =>
        /\ pc # "raised"
        /\ pc = "is_success" => ret = 1
        /\ (pc = "compute_reward" /\ cfg.reward_type = "sparse" /\ ArgNoWeights) => ret = 0

\* C9: a call of compute_reward changes neither the configuration, the
\* simulator, the environment attributes nor the arrays behind its arguments
\* (achieved goal, desired goal, info['weights']), and returns what the first
\* call with these arguments returned, whatever steps and resets changed in
\* self.goal and the simulator in between.
C9_Pure ==
    [][pc' = "compute_reward" =>
          /\ UNCHANGED <<cfg, sim, env>>
          /\ args'.achieved_goal = args.achieved_goal
          /\ args'.goal = args.goal
          /\ args'.info = args.info
          /\ hist.called => ret' = hist.first]_vars

\* a weighted sparse call that failed (the product success * weights is 0, the
\* weights are still 0.5), made after a step or reset that followed the first
\* call and left another self.goal and simulator state
C9_Witness ==
    /\ pc = "compute_reward" /\ hist.called /\ hist.activity
    /\ sim.state = 1 /\ env.goal = 20
    /\ cfg.kind = "MovingHandEnv" /\ cfg.reward_type = "sparse" /\ cfg.success_on_grasp_only
    /\ args.info.weights = <<500>>
    /\ ret = -1000 /\ ret = hist.first

\* C10 as amended: dense compute_reward is -(10 * d_pos + d_rot) in
\* MovingHandEnv and _PickAndPlaceEnv, and -d (the plain distance of the goal
\* vectors) in YumiEnv and YumiConstrainedEnv; an object 0.5 from the goal,
\* rotation ignored, threshold 0.05: _is_success 0, MovingHandEnv reward -5.0.
C10_Dense ==
    /\ (pc = "compute_reward" /\ cfg.reward_type = "dense") =>
          CASE cfg.kind \in {"MovingHandEnv", "PickAndPlaceEnv"} ->
                  /\ ret = -(10 * ArgDPos + ArgDRot)
                  /\ (ArgDPos = 500 /\ ArgDRot = 0) => ret = -5000
            [] cfg.kind = "YumiEnv" -> ret = -Norm6(VSub(args.achieved_goal, args.goal))
    /\ (pc = "compute_reward" /\ cfg.reward_type = "dense") =>
          YumiConstrainedEnv_compute_reward(
              cfg, Pos(args.achieved_goal), Pos(args.goal), args.info) = -ArgDPos
    /\ (pc = "is_success" /\ cfg.kind # "YumiEnv" /\ ArgDPos = 500 /\ cfg.distance_threshold = 50) =>
          ret = 0

\* the scenario: 0.5 from the goal, rotation ignored, dense reward -5.0
C10_Witness ==
    /\ pc = "compute_reward" /\ cfg.reward_type = "dense" /\ cfg.kind = "MovingHandEnv"
    /\ cfg.has_object /\ cfg.ignore_target_rotation /\ cfg.distance_threshold = 50
    /\ ArgDPos = 500
    /\ ret = -5000

\* C10 as stated: every environment's dense reward is -(10 * d_pos + d_rot)
C10_DenseEverywhere ==
    (pc = "compute_reward" /\ cfg.reward_type = "dense") =>
        ret = -(10 * (IF cfg.kind = "YumiEnv"
                      THEN Norm6(VSub(args.achieved_goal, args.goal)) ELSE ArgDPos)
                + ArgDRot)


----------------------------------------------------------------------------
(* MovingHandEnv: reset of the simulator *)

\* _check_range(a, a_min, a_max, include_bounds=True)
check_range(a, a_min, a_max, include_bounds) ==
    IF include_bounds
    THEN \A i \in DOMAIN a : a_min[i] <= a[i] /\ a[i] <= a_max[i]
    ELSE \A i \in DOMAIN a : a_min[i] < a[i] /\ a[i] < a_max[i]

\* self.forearm_bounds, self.table_safe_bounds, self._initial_arm_mocap_pose[:3]
forearm_bounds == << <<650, 300, 420>>, <<1750, 1200, 1000>> >>
table_safe_bounds == << <<1100, 430>>, <<1490, 1050>> >>
initial_arm_mocap_pos == <<1050, 750, 650>>

\* default_qpos['object:joint'][:3]
initial_object_pos == <<1250, 530, 400>>

\* np.clip(pose[:3], *self.forearm_bounds)
ClipVec(v, lo, hi) == [i \in DOMAIN v |-> Clip(v[i], lo[i], hi[i])]

\* draws of np_random.uniform(-0.2, 0.2, size=2) for the arm
ArmOffsets == {<<0, 0>>, <<-200, 0>>, <<150, 150>>}
\* draws of np_random.uniform(*self.table_safe_bounds) for the object
ObjectDraws == {<<1100, 430>>, <<1489, 1049>>}
\* draws of np_random.uniform(-0.005, 0.005, size=2), the placement noise
NoiseDraws == {<<-5, -5>>, <<0, 0>>}

\* the draws <<arm, object, noise>> one pass of the loop can make; a draw the
\* pass does not make is written as its first value
DrawsOf(c, reset_to_grasp_state) ==
    LET arms   == IF c.randomize_initial_arm_pos THEN ArmOffsets ELSE {<<0, 0>>}
        places == c.has_object /\ ~reset_to_grasp_state
        objs   == IF places /\ c.randomize_initial_object_pos
                  THEN ObjectDraws ELSE {<<1100, 430>>}
        noises == IF places /\ ~c.randomize_initial_object_pos
                  THEN NoiseDraws ELSE {<<-5, -5>>}
    IN  arms \X objs \X noises

\* The simulator's response to the 10 settle steps is a fixed function of the
\* state it starts from and of the arm pose (the physics is deterministic):
\*   vel_of[a]   object speed after settling from initial_state, arm offset a
\*   grasp_of[a] <<palm-to-object distance, object speed>> after settling
\*               from the grasp snapshot, arm offset a
\* An arm left at its initial pose does not disturb the resting object.
Worlds ==
    {w \in [vel_of : [ArmOffsets -> {0, 800}],
            grasp_of : [ArmOffsets -> {<<30, 0>>, <<30, 800>>, <<100, 0>>}]] :
        w.vel_of[<<0, 0>>] = 0}

\* the responses configuration c can observe (the others are left at rest)
WorldsOf(c) ==
    {w \in Worlds :
        /\ \A a \in ArmOffsets :
              (~c.has_object \/ (a # <<0, 0>> /\ ~c.randomize_initial_arm_pos)) =>
                  (w.vel_of[a] = 0 /\ w.grasp_of[a] = <<30, 0>>)
        /\ \A a \in ArmOffsets : c.grasp_state = None => w.grasp_of[a] = <<30, 0>>}

\* offset of the palm centre from the arm mocap body once the weld has settled
palm_offset == <<250, 0, -50>>

\* _set_arm_pose writing the commanded position as it is
Mut_set_arm_pose_unclipped(pose) == Pos(pose)

\* MovingHandEnv._set_arm_pose(pose): the mocap position written
set_arm_pose(pose) == ClipVec(Pos(pose), forearm_bounds[1], forearm_bounds[2])

\* mutant: the validation checks the object's speed and not its place
Mut_reset_valid_still_only(s, reset_to_grasp_state) ==
    s.object_vel < 800

\* the validation at the end of one pass: object_still and
\* object_on_palm (snapshot) / object_on_table (canonical)
reset_valid(s, reset_to_grasp_state) ==
    LET object_pos   == s.object_pos
        object_still == s.object_vel < 800
    IN  IF reset_to_grasp_state
        THEN LET object_on_palm == Norm(VSub(object_pos, s.palm_pos)) < 80
             IN  object_still /\ object_on_palm
        ELSE LET object_on_table ==
                    check_range(SubSeq(object_pos, 1, 2), table_safe_bounds[1],
                                table_safe_bounds[2], TRUE)
             IN  object_still /\ object_on_table

\* the simulator state at the end of one pass of the loop of _reset_sim:
\* set_state, arm pose, 10 steps, object placement, forward
reset_pass(c, world, reset_to_grasp_state, arm, obj, noise) ==
    LET new_arm_pose == <<initial_arm_mocap_pos[1] + arm[1],
                          initial_arm_mocap_pos[2] + arm[2], initial_arm_mocap_pos[3]>>
        mocap    == set_arm_pose(new_arm_pose)
        palm     == VAdd(mocap, palm_offset)
        settled  == IF reset_to_grasp_state
                    THEN [object_pos |-> VAdd(palm, <<world.grasp_of[arm][1], 0, 0>>),
                          object_vel |-> world.grasp_of[arm][2]]
                    ELSE [object_pos |-> initial_object_pos,
                          object_vel |-> world.vel_of[arm]]
        object_xpos == IF c.randomize_initial_object_pos THEN obj
                       ELSE <<palm[1] + noise[1], palm[2] + noise[2]>>
        placed   == IF c.has_object /\ ~reset_to_grasp_state
                    THEN <<object_xpos[1], object_xpos[2], settled.object_pos[3]>>
                    ELSE settled.object_pos
        \* the sim.step() calls made between the last write of the object's
        \* position (lines 373-383) and the validation: the 10 steps of lines
        \* 369-370 come before the placement
        steps_after_placement == IF c.has_object /\ ~reset_to_grasp_state THEN 0 ELSE 10
    IN  [mocap_pos |-> mocap, palm_pos |-> palm, object_pos |-> placed,
         object_vel |-> settled.object_vel, snapshot |-> reset_to_grasp_state,
         steps_after_placement |-> steps_after_placement]

\* configurations of MovingHandEnv for reset: grasp_state is None or a snapshot
\* (always with an object: __init__ does not complete without one, see
\* MovingHandEnv_init)
MovingHandEnv_reset_configs ==
    {c \in [kind : {"MovingHandEnv"}, reward_type : {"sparse"},
            has_object : {TRUE}, ignore_target_rotation : {TRUE},
            ignore_rotation_ctrl : {FALSE}, success_on_grasp_only : {FALSE},
            randomize_initial_arm_pos : BOOLEAN, randomize_initial_object_pos : BOOLEAN,
            grasp_state : {None, "snapshot"}, grasp_state_reset_p : {0, 500},
            distance_threshold : {50}, rotation_threshold : {100}] :
        MovingHandEnv_init_accepts(c)}

\* sim.set_state with the simulator state aliasing the value it is given
Mut_set_state_aliasing(s, value) ==
    [data |-> [mocap_pos |-> s.mocap_pos, ctrl |-> s.ctrl, palm_pos |-> value.palm_pos,
               object_pos |-> value.object_pos, object_vel |-> value.object_vel],
     shares |-> TRUE]

\* self.sim.set_state(value), lines 355 and 362: positions and velocities are
\* copied from value into the simulator's own arrays; the mocap pose and the
\* actuator control targets are not part of a state and stay as they are
set_state(s, value) ==
    [data |-> [mocap_pos |-> s.mocap_pos, ctrl |-> s.ctrl, palm_pos |-> value.palm_pos,
               object_pos |-> value.object_pos, object_vel |-> value.object_vel],
     shares |-> FALSE]

\* self.initial_state, taken after _env_setup
initial_state ==
    [palm_pos |-> VAdd(initial_arm_mocap_pos, palm_offset),
     object_pos |-> initial_object_pos, object_vel |-> 0]

\* the contents of the pre-grasped snapshot: the object at rest on the palm
grasp_state_contents ==
    [palm_pos |-> VAdd(initial_arm_mocap_pos, palm_offset),
     object_pos |-> VAdd(VAdd(initial_arm_mocap_pos, palm_offset), <<30, 0, 0>>),
     object_vel |-> 0]

\* the state after __init__: _env_setup has moved the arm and settled
InitReset ==
    /\ cfg \in MovingHandEnv_reset_configs
    /\ \E w \in WorldsOf(cfg) :
          sim = [world |-> w, mocap_pos |-> set_arm_pose(initial_arm_mocap_pos \o <<0, 0, 0, 0>>),
                 palm_pos |-> VAdd(initial_arm_mocap_pos, palm_offset),
                 object_pos |-> initial_object_pos, object_vel |-> 0, snapshot |-> FALSE,
                 steps_after_placement |-> 10, ctrl |-> "initial", shares |-> FALSE]
    /\ env = [relative_control |-> FALSE,
              grasp_state |-> IF cfg.grasp_state = None THEN [kind |-> "none"]
                              ELSE grasp_state_contents]
    /\ pc = "idle"
    /\ args = [reset_to_grasp_state |-> FALSE]
    /\ ret = None
    /\ hist = [passes |-> 0, starts |-> {}]

\* _reset_sim, line 350: reset_to_grasp_state = grasp_state_reset_p > uniform()
ResetBegin ==
    /\ pc \in {"idle", "returned", "stepped"}
    /\ \E u \in {0, 500, 999} : args' = [reset_to_grasp_state |-> cfg.grasp_state_reset_p > u]
    /\ pc' = "loop"
    /\ hist' = [passes |-> 0, starts |-> {}]
    /\ UNCHANGED <<cfg, sim, env, ret>>

\* one pass of the while loop with the draws (arm, obj, noise)
ResetPass(arm, obj, noise) ==
    /\ pc = "loop"
    /\ <<arm, obj, noise>> \in DrawsOf(cfg, args.reset_to_grasp_state)
    /\ IF args.reset_to_grasp_state /\ ~cfg.has_object
       THEN \* assert self.has_object
            /\ pc' = "raised" /\ ret' = "AssertionError"
            /\ hist' = [hist EXCEPT !.passes = IF @ < MaxPasses THEN @ + 1 ELSE @]
            /\ UNCHANGED <<cfg, sim, env, args>>
       ELSE IF args.reset_to_grasp_state /\ cfg.grasp_state = None
       THEN \* self.sim.set_state(None)
            /\ pc' = "raised" /\ ret' = "Error"
            /\ hist' = [hist EXCEPT !.passes = IF @ < MaxPasses THEN @ + 1 ELSE @]
            /\ UNCHANGED <<cfg, sim, env, args>>
       ELSE LET st == set_state(sim, IF args.reset_to_grasp_state
                                     THEN env.grasp_state ELSE initial_state)
                s == reset_pass(cfg, sim.world, args.reset_to_grasp_state, arm, obj, noise)
                break == ~cfg.has_object \/ reset_valid(s, args.reset_to_grasp_state)
            IN  \* lines 357-360: the hand control is fixed on the restored
                \* finger positions in snapshot mode and left alone otherwise
                /\ sim' = [world |-> sim.world, shares |-> st.shares,
                           ctrl |-> IF args.reset_to_grasp_state THEN "hold" ELSE st.data.ctrl]
                          @@ s
                \* what the pass writes lands in the snapshot if the
                \* simulator shares its arrays
                /\ env' = [env EXCEPT !.grasp_state =
                              IF st.shares /\ args.reset_to_grasp_state
                              THEN [palm_pos |-> s.palm_pos, object_pos |-> s.object_pos,
                                    object_vel |-> s.object_vel]
                              ELSE @]
                /\ hist' = [passes |-> IF hist.passes < MaxPasses
                                       THEN hist.passes + 1 ELSE hist.passes,
                            starts |-> hist.starts \cup {st.data}]
                /\ pc' = IF break THEN "returned" ELSE "loop"
                /\ ret' = IF break THEN "True" ELSE ret
                /\ UNCHANGED <<cfg, args>>

\* MovingHandEnv._set_action(action) with the arm mocap at mocap_pos: the
\* action in thousandths, entries 1..20 for the hand, the rest for the forearm
\* (position delta, then orientation delta), scaled by 0.1
MovingHandEnv_set_action(self, mocap_pos, action) ==
    LET hand_ctrl == SubSeq(action, 1, 20)
        forearm_ctrl == [i \in 1..(Len(action) - 20) |-> action[20 + i] \div 10]
        pos_delta == SubSeq(forearm_ctrl, 1, 3)
        quat_delta == [i \in 1..(Len(forearm_ctrl) - 3) |->
                          IF self.ignore_rotation_ctrl THEN 0 ELSE forearm_ctrl[3 + i]]
        new_pos == VAdd(mocap_pos, pos_delta)
    IN  [hand_ctrl |-> hand_ctrl, pos_delta |-> pos_delta, quat_delta |-> quat_delta,
         mocap_pos |-> set_arm_pose(new_pos \o quat_delta)]

\* a step of the episode after reset() has returned: the action sets the
\* control targets and moves the arm target (by nothing, or far beyond the
\* workspace on two axes), the physics moves the object
EpisodeStep ==
    /\ pc \in {"returned", "stepped"}
    /\ ret = "True"
    /\ \E d \in {<<0, 0, 0>>, <<-10000, 0, 6000>>} :
          sim' = [sim EXCEPT !.ctrl = "action",
                          !.mocap_pos = MovingHandEnv_set_action(cfg, sim.mocap_pos,
                                            [i \in 1..20 |-> 0] \o d \o <<0, 0, 0, 0>>).mocap_pos,
                          !.object_pos = VAdd(initial_object_pos, <<10, 0, 0>>),
                          !.object_vel = 100]
    /\ env' = [env EXCEPT !.grasp_state =
                  IF sim.shares /\ sim.snapshot
                  THEN [@ EXCEPT !.object_pos = VAdd(initial_object_pos, <<10, 0, 0>>),
                                 !.object_vel = 100]
                  ELSE @]
    /\ pc' = "stepped"
    /\ UNCHANGED <<cfg, args, ret, hist>>

\* MovingHandEnv._get_obs with the object parts present only while the object moves
Mut_get_obs_object_if_moving(self, s, goal) ==
    LET zeros(n) == [i \in 1..n |-> 0]
        present == self.has_object /\ s.object_vel > 0
        forearm_pose == SubSeq(s.mocap_pos, 1, 3) \o zeros(3)
        forearm_velp == zeros(3)
        palm_pos == s.palm_pos
        object_vel == IF present THEN <<s.object_vel>> \o zeros(5) ELSE zeros(0)
        object_pose == IF present THEN s.object_pos \o zeros(3) ELSE zeros(0)
        object_rel_pos == IF present THEN VSub(s.object_pos, palm_pos) ELSE zeros(0)
        robot_qpos == zeros(24)
        robot_qvel == zeros(24)
        parts == <<forearm_pose, forearm_velp, palm_pos, object_rel_pos,
                   robot_qpos, robot_qvel, object_pose, object_vel>>
    IN  [observation |-> forearm_pose \o forearm_velp \o palm_pos \o object_rel_pos
                         \o robot_qpos \o robot_qvel \o object_pose \o object_vel,
         layout |-> [i \in 1..8 |-> Len(parts[i])],
         desired_goal |-> goal]

\* MovingHandEnv._get_obs in simulator state s. The forearm follows the mocap
\* body; its orientation and velocity and the 24 hand joints that
\* robot_get_obs reads are not followed and read 0. layout lists the lengths
\* of the parts in the order of the concatenation.
MovingHandEnv_get_obs(self, s, goal) ==
    LET zeros(n) == [i \in 1..n |-> 0]
        forearm_pose == SubSeq(s.mocap_pos, 1, 3) \o zeros(3)
        forearm_velp == zeros(3)
        palm_pos == s.palm_pos
        object_vel == IF self.has_object THEN <<s.object_vel>> \o zeros(5) ELSE zeros(0)
        object_pose == IF self.has_object THEN s.object_pos \o zeros(3) ELSE zeros(0)
        object_rel_pos == IF self.has_object THEN VSub(s.object_pos, palm_pos) ELSE zeros(0)
        robot_qpos == zeros(24)
        robot_qvel == zeros(24)
        parts == <<forearm_pose, forearm_velp, palm_pos, object_rel_pos,
                   robot_qpos, robot_qvel, object_pose, object_vel>>
    IN  [observation |-> forearm_pose \o forearm_velp \o palm_pos \o object_rel_pos
                         \o robot_qpos \o robot_qvel \o object_pose \o object_vel,
         layout |-> [i \in 1..8 |-> Len(parts[i])],
         desired_goal |-> goal]

\* MovingHandEnv.get_object_contact_points: the has_object check comes first
get_object_contact_points(self, s) ==
    IF ~self.has_object THEN "NotImplementedError" ELSE "contact_points"

\* MovingHandEnv._get_object_pose: _get_body_pose('object') without a check of
\* has_object. The simulator binding raises only if the model has no body of
\* that name, which the model file decides (body_exists).
MovingHandEnv_get_object_pose(self, s, body_exists) ==
    IF body_exists THEN "pose" ELSE "ValueError"

NextReset ==
    \/ ResetBegin
    \/ EpisodeStep
    \/ \E d \in ArmOffsets \X ObjectDraws \X NoiseDraws : ResetPass(d[1], d[2], d[3])

SpecReset == InitReset /\ [][NextReset]_vars

\* C5: with fair draws _reset_sim eventually returns in every configuration
\* the constructor accepts. Every pass starts from the same restored state, so
\* the loop returns under fair draws exactly when, wherever the loop stands,
\* some draw of the next pass ends it with a return.
C5_ResetReturns ==
    (pc = "loop") => ENABLED (NextReset /\ pc' = "returned")

\* C6: when _reset_sim returns in an environment with an object, the final
\* simulator state has object speed < 0.8 and the object inside
\* table_safe_bounds (bounds included) in canonical mode, or within 0.08 of the
\* palm in snapshot mode.
C6_ReturnedStateValid ==
    (pc = "returned" /\ cfg.has_object) =>
        /\ sim.object_vel < 800
        /\ ~sim.snapshot =>
              /\ table_safe_bounds[1][1] <= sim.object_pos[1]
              /\ sim.object_pos[1] <= table_safe_bounds[2][1]
              /\ table_safe_bounds[1][2] <= sim.object_pos[2]
              /\ sim.object_pos[2] <= table_safe_bounds[2][2]
        /\ sim.snapshot => Norm(VSub(sim.object_pos, sim.palm_pos)) < 80

\* a reset that needed more than one pass and returned with the object on a
\* bound of the table region
C6_Witness ==
    /\ pc = "returned" /\ cfg.has_object /\ ~sim.snapshot /\ hist.passes > 1
    /\ sim.object_pos[1] = table_safe_bounds[1][1]


----------------------------------------------------------------------------
(* YumiEnv: reset of the simulator *)

\* Joint state: one value stands for the 7 joints of an arm (all drawn by one
\* call of uniform) and one for the 2 joints of a gripper; milliradians.
\* qpos / qvel of the model as loaded (what _env_setup copies)
loaded_qpos == [arm_l |-> 0, grip_l |-> 10, arm_r |-> 0, grip_r |-> 10]
loaded_qvel == [arm_l |-> 0, grip_l |-> 0, arm_r |-> 0, grip_r |-> 0]

\* draws of np_random.uniform(pos_low, pos_high) (first joint: [-1.0, 0.4))
JointDraws == {-1000, 399}

\* values the physics leaves in a joint after steps
JointStates == {0, 50}

YumiEnv_reset_configs ==
    {c \in [kind : {"YumiEnv"}, reward_type : {"sparse"},
            arm : {"left", "right", "both"}, has_object : {FALSE},
            block_gripper : BOOLEAN, distance_threshold : {50}] :
        YumiEnv_init_accepts(c)}

\* YumiEnv._env_setup: which joint index lists are set (not None)
has_arm_l_joint_idx(self) == has_left_arm(self)
has_arm_r_joint_idx(self) == has_right_arm(self)
has_gripper_l_joint_idx(self) == ~self.block_gripper /\ has_left_arm(self)
has_gripper_r_joint_idx(self) == ~self.block_gripper /\ has_right_arm(self)

\* YumiEnv._reset_sim, lines 84-85: the qpos and qvel handed to _set_sim_state
reset_sim_state(self, e) == [qpos |-> e.init_qpos, qvel |-> e.init_qvel]

\* YumiEnv._reset_sim, lines 87-101: self.init_qpos / self.init_qvel afterwards
reset_sim_init(self, e, draw_l, draw_r) ==
    LET p1 == IF has_arm_l_joint_idx(self) THEN [e.init_qpos EXCEPT !.arm_l = draw_l] ELSE e.init_qpos
        v1 == IF has_arm_l_joint_idx(self) THEN [e.init_qvel EXCEPT !.arm_l = 0] ELSE e.init_qvel
        p2 == IF has_gripper_l_joint_idx(self) THEN [p1 EXCEPT !.grip_l = 0] ELSE p1
        v2 == IF has_gripper_l_joint_idx(self) THEN [v1 EXCEPT !.grip_l = 0] ELSE v1
        p3 == IF has_arm_r_joint_idx(self) THEN [p2 EXCEPT !.arm_r = draw_r] ELSE p2
        v3 == IF has_arm_r_joint_idx(self) THEN [v2 EXCEPT !.arm_r = 0] ELSE v2
        p4 == IF has_gripper_r_joint_idx(self) THEN [p3 EXCEPT !.grip_r = 0] ELSE p3
        v4 == IF has_gripper_r_joint_idx(self) THEN [v3 EXCEPT !.grip_r = 0] ELSE v3
    IN  [init_qpos |-> p4, init_qvel |-> v4]

\* the state after __init__ (_env_setup copies the loaded qpos and qvel)
InitYumiReset ==
    /\ cfg \in YumiEnv_reset_configs
    /\ sim = [qpos |-> loaded_qpos, qvel |-> loaded_qvel]
    /\ env = [init_qpos |-> loaded_qpos, init_qvel |-> loaded_qvel]
    /\ pc = "idle"
    /\ args = <<>>
    /\ ret = None
    /\ hist = [resets |-> 0, draw_l |-> 0, draw_r |-> 0]

\* YumiEnv._reset_sim with the draws of its two uniform calls (an arm the
\* environment does not have makes no draw: its value is unused)
YumiResetSim(draw_l, draw_r) ==
    /\ LET st == reset_sim_state(cfg, env)
       IN  sim' = [qpos |-> st.qpos, qvel |-> st.qvel]
    /\ LET after == reset_sim_init(cfg, env, draw_l, draw_r)
       IN  env' = [init_qpos |-> after.init_qpos, init_qvel |-> after.init_qvel]
    /\ pc' = "reset"
    /\ ret' = "True"
    /\ hist' = [resets |-> IF hist.resets < MaxResets THEN hist.resets + 1 ELSE hist.resets,
                draw_l |-> draw_l, draw_r |-> draw_r]
    /\ UNCHANGED <<cfg, args>>

\* steps of the episode: the physics moves the joints
YumiSteps ==
    /\ pc \in {"reset", "stepped"}
    /\ \E l \in JointStates, r \in JointStates :
          sim' = [qpos |-> [sim.qpos EXCEPT !.arm_l = l, !.arm_r = r],
                  qvel |-> [sim.qvel EXCEPT !.arm_l = l, !.arm_r = r]]
    /\ pc' = "stepped"
    /\ UNCHANGED <<cfg, env, args, ret, hist>>

NextYumiReset ==
    \/ \E draw_l \in JointDraws, draw_r \in JointDraws : YumiResetSim(draw_l, draw_r)
    \/ YumiSteps

SpecYumiReset == InitYumiReset /\ [][NextYumiReset]_vars

\* C7: the simulator state a reset installs depends only on construction-time
\* constants and on the draws of that reset: each arm's joints hold the loaded
\* value or the value this reset drew for that arm, never a value drawn by an
\* earlier reset.
C7_ResetIndependentOfEarlierResets ==
    pc = "reset" =>
        /\ sim.qpos.arm_l \in {loaded_qpos.arm_l, hist.draw_l}
        /\ sim.qpos.arm_r \in {loaded_qpos.arm_r, hist.draw_r}


----------------------------------------------------------------------------
(* YumiConstrainedEnv: step *)

\* Actions are vectors of thousandths; positions are in millimetres.
\* action_space = Box(-1., 1., shape=(n_actions,))
action_low == -1000
action_high == 1000

n_actions(self) ==
    4 + (IF self.rotation_ctrl_enabled THEN 4 ELSE 0)
      + (IF self.fingers_ctrl_enabled THEN 2 ELSE 0)

\* _unpack_action reading the finger commands right after the position delta
Mut_unpack_action_fingers_at_4(self, action) ==
    [dist_between_grippers |-> action[1],
     grasp_center_pos_delta |-> SubSeq(action, 2, 4),
     grasp_center_quat_delta |->
         IF self.rotation_ctrl_enabled THEN SubSeq(action, 5, 8)
         ELSE <<1000, 0, 0, 0>>,
     l_fingers_ctrl |-> IF self.fingers_ctrl_enabled THEN action[5] ELSE -1000,
     r_fingers_ctrl |-> IF self.fingers_ctrl_enabled THEN action[6] ELSE -1000,
     consumed |-> n_actions(self)]

\* YumiConstrainedEnv._unpack_action
unpack_action(self, action) ==
    LET offset == IF self.rotation_ctrl_enabled THEN 8 ELSE 4
    IN  [dist_between_grippers |-> action[1],
         grasp_center_pos_delta |-> SubSeq(action, 2, 4),
         grasp_center_quat_delta |->
             IF self.rotation_ctrl_enabled THEN SubSeq(action, 5, 8)
             ELSE <<1000, 0, 0, 0>>,
         l_fingers_ctrl |-> IF self.fingers_ctrl_enabled THEN action[offset + 1] ELSE -1000,
         r_fingers_ctrl |-> IF self.fingers_ctrl_enabled THEN action[offset + 2] ELSE -1000,
         \* the number of entries read
         consumed |-> IF self.fingers_ctrl_enabled THEN offset + 2 ELSE offset]

\* np.interp(d, [-1, 1], [0.05, 0.30]) for d already clipped to [-1, 1]
interp_dist(d) == 50 + ((d + 1000) * 250) \div 2000

\* YumiConstrainedEnv.get_grasp_center_pos
get_grasp_center_pos(s) ==
    [i \in 1..3 |-> (s.gripper_l_pos[i] + s.gripper_r_pos[i]) \div 2]

\* step, lines 195-198: the target pose of the grasp centre
target_grasp_center_pose(s, grasp_center_pos_delta) ==
    LET curr == get_grasp_center_pos(s)
    IN  [i \in 1..3 |-> curr[i] + grasp_center_pos_delta[i] \div 5] \o quat_identity

\* the position targets offset along the x axis of the grasp centre
Mut_grippers_pos_targets_along_x(dist_between_grippers, target_pose) ==
    << Pos(apply_tf(<<dist_between_grippers \div 2, 0, 0>> \o quat_identity, target_pose)),
       Pos(apply_tf(<<-(dist_between_grippers \div 2), 0, 0>> \o quat_identity, target_pose)) >>

\* step, lines 203-206: the position targets of the left and the right gripper
grippers_pos_targets(dist_between_grippers, target_pose) ==
    << Pos(apply_tf(<<0, dist_between_grippers \div 2, 0>> \o quat_identity, target_pose)),
       Pos(apply_tf(<<0, -(dist_between_grippers \div 2), 0>> \o quat_identity, target_pose)) >>

\* step, lines 208-212: half the planar distance between the two targets
grasp_radius(targets) ==
    ISqrt(Sq(targets[1][1] - targets[2][1]) + Sq(targets[1][2] - targets[2][2])) \div 2

\* YumiConstrainedEnv._reset, lines 165-168: the object of the fixed qpos, and
\* the gripper centres that configuration of the arms gives
reset_object_pos == <<25, 25, 30>>
reset_gripper_l_pos == <<0, 75, 100>>
reset_gripper_r_pos == <<0, -75, 100>>

\* places of the object and of the goal: on one line through the object's
\* reset position, 25 mm apart
ConstrainedPos(k) == VAdd(reset_object_pos, GoalPos(k))
GoalSteps == {0, 1}

\* the arms can carry the grasp centre 0.2 (per axis) from its reset position
Reachable(p) ==
    \A i \in 1..3 : Abs(p[i] - get_grasp_center_pos(
        [gripper_l_pos |-> reset_gripper_l_pos, gripper_r_pos |-> reset_gripper_r_pos])[i]) <= 200


\* YumiConstrainedEnv._move_arms with max_steps=5, seen from step: the states
\* the simulator can be in after the controller's steps. The arms have reached
\* their targets or have not moved. _move_arms writes no object position: the
\* object rests where it was, or the physics steps (line 367) have carried it
\* to one of two places on the line of the goals.
move_arms_outcomes(s, targets) ==
    {[gripper_l_pos |-> g[1], gripper_r_pos |-> g[2], object_pos |-> o] :
        g \in {<<s.gripper_l_pos, s.gripper_r_pos>>} \cup
              (IF Reachable(targets[1]) /\ Reachable(targets[2]) THEN {targets} ELSE {}),
        o \in {s.object_pos} \cup {ConstrainedPos(k) : k \in {0, 3}}}

\* YumiConstrainedEnv._get_obs: the goal part of the observation
get_obs(s, goal) == [achieved_goal |-> s.object_pos, desired_goal |-> goal]

\* step, line 222
Mut_step_done_on_success(self, info) == info.is_success = 1

step_done(self, info) == FALSE

\* step, lines 221-225: what step returns in simulator state s
step_result(self, s, goal) ==
    LET obs == get_obs(s, goal)
        info == [is_success |-> YumiConstrainedEnv_is_success(self, obs.achieved_goal, goal)]
    IN  [obs |-> obs,
         reward |-> YumiConstrainedEnv_compute_reward(self, obs.achieved_goal, goal, info),
         done |-> step_done(self, info),
         info |-> info]

YumiConstrainedEnv_step_configs ==
    [kind : {"YumiConstrainedEnv"}, reward_type : {"sparse", "dense"},
     rotation_ctrl_enabled : BOOLEAN, fingers_ctrl_enabled : BOOLEAN,
     distance_threshold : {50}, randomize_initial_object_pos : BOOLEAN]

\* the actions given to step: the first component beyond the bounds of the
\* action space, at them and inside them
StepActions(self) ==
    {<<d>> \o delta \o rot \o fingers :
        d \in {-1000, -200, 3000},
        delta \in {<<0, 0, 0>>, <<1000, 500, -500>>, <<-2000, 0, 0>>},
        rot \in (IF self.rotation_ctrl_enabled THEN {<<500, -500, 200, 0>>} ELSE {<<>>}),
        fingers \in (IF self.fingers_ctrl_enabled THEN {<<-1000, 1000>>} ELSE {<<>>})}

NoRet == [obs |-> None, reward |-> 0, done |-> FALSE, info |-> None]

\* YumiConstrainedEnv._reset, lines 163-178: the simulator states it can
\* leave. The arms and the object are in the fixed configuration; with
\* randomize_initial_object_pos the object's x and y are drawn anew by
\* np_random.uniform within sim_env._obj_init_bounds (three such draws).
reset_outcomes(self) ==
    {[gripper_l_pos |-> reset_gripper_l_pos, gripper_r_pos |-> reset_gripper_r_pos,
      object_pos |-> <<xy[1], xy[2], reset_object_pos[3]>>] :
        xy \in IF self.randomize_initial_object_pos
               THEN {<<25, 25>>, <<25, -35>>, <<50, 85>>}
               ELSE {<<reset_object_pos[1], reset_object_pos[2]>>}}

\* YumiConstrainedEnv.reset, lines 236-238: the simulator states in which
\* the observation is taken. After _reset and the new goal comes one physics
\* step (line 238), which leaves the object at rest where _reset put it or
\* carries it to one of two places on the line of the goals.
reset_states(self) ==
    UNION {{[s EXCEPT !.object_pos = o] :
                o \in {s.object_pos} \cup {ConstrainedPos(k) : k \in {0, 3}}} :
           s \in reset_outcomes(self)}

\* YumiConstrainedEnv.step(action), lines 186-225, as a function of the
\* fields of self it reads, the simulator state s and the goal: what it
\* raises, what it decoded and computed before _move_arms (seen), and the
\* simulator states it can leave, each with the tuple returned in it
YumiConstrainedEnv_step(self, s, goal, action) ==
    LET clipped == [i \in DOMAIN action |-> Clip(action[i], action_low, action_high)]
        u == unpack_action(self, clipped)
        dist_between_grippers == interp_dist(u.dist_between_grippers)
        target == target_grasp_center_pose(s, u.grasp_center_pos_delta)
        targets == grippers_pos_targets(dist_between_grippers, target)
        seen == [u |-> u, dist_between_grippers |-> dist_between_grippers,
                 target |-> target, targets |-> targets]
        raised == IF self.rotation_ctrl_enabled THEN "NotImplementedError"
                  ELSE IF grasp_radius(targets) # dist_between_grippers \div 2
                  THEN "AssertionError" ELSE None
    IN  [raised |-> raised, seen |-> seen,
         outcomes |-> IF raised # None THEN {}
                      ELSE {[sim |-> after, ret |-> step_result(self, after, goal)] :
                                after \in move_arms_outcomes(s, targets)}]

\* step and reset are checked as functions of what they read: no instance
\* comes out of the constructor (YumiConstrainedEnv_init), so the inputs are
\* drawn. The fields of self are the flags, the threshold and a goal; the
\* simulator state is one of those reset() leaves.
InitStep ==
    /\ cfg \in YumiConstrainedEnv_step_configs
    /\ sim \in reset_states(cfg)
    /\ \E g \in GoalSteps : env = [goal |-> ConstrainedPos(g)]
    /\ pc = "inputs"
    /\ args = <<>>
    /\ ret = NoRet
    /\ hist = [steps |-> 0]

\* step(action) applied to the fields and the simulator state at hand
ConstrainedStep(action) ==
    /\ Len(action) = n_actions(cfg)
    /\ args' = action
    /\ LET r == YumiConstrainedEnv_step(cfg, sim, env.goal, action)
       IN  IF r.raised # None
           THEN /\ pc' = "raised"
                /\ ret' = [NoRet EXCEPT !.obs = r.raised]
                /\ hist' = [steps |-> hist.steps] @@ r.seen
                /\ UNCHANGED sim
           ELSE /\ \E o \in r.outcomes : sim' = o.sim /\ ret' = o.ret
                /\ pc' = "stepped"
                /\ hist' = [steps |-> 1] @@ r.seen
    /\ UNCHANGED <<cfg, env>>

\* reset(), lines 235-239, applied likewise: _reset, a new goal, one physics
\* step, the observation returned
ConstrainedReset ==
    /\ sim' \in reset_states(cfg)
    /\ \E g \in GoalSteps : env' = [goal |-> ConstrainedPos(g)]
    /\ ret' = [NoRet EXCEPT !.obs = get_obs(sim', env'.goal)]
    /\ pc' = "reset"
    /\ args' = <<>>
    /\ hist' = [steps |-> 0]
    /\ UNCHANGED cfg

NextStep ==
    \/ \E action \in StepActions(cfg) : ConstrainedStep(action)
    \/ ConstrainedReset

SpecStep == InitStep /\ [][NextStep]_vars

\* C8: step returns done = False after every step, whatever the action and
\* whether or not the goal is reached; success is reported through
\* info['is_success'] only, and in sparse mode the reward is is_success - 1.
C8_StepNeverDone ==
    pc = "stepped" =>
        /\ ret.done = FALSE
        /\ ret.info.is_success =
              BoolToInt(Norm(VSub(sim.object_pos, env.goal)) < cfg.distance_threshold)
        /\ cfg.reward_type = "sparse" => ret.reward = 1000 * ret.info.is_success - 1000

\* a step that ended with the object at the goal, after an action clipped to
\* the action space
C8_Witness ==
    /\ pc = "stepped"
    /\ ret.info.is_success = 1
    /\ cfg.reward_type = "sparse"
    /\ ret.reward = 0
    /\ args[1] > action_high
    /\ sim.gripper_l_pos # reset_gripper_l_pos


----------------------------------------------------------------------------
(* Angle between two orientations *)

\* pi in milliradians, a multiple of pi/3 -> 1047 like the values of TwoArccos
Pi == 3141

\* mutant: the angle returned without normalisation
Mut_normalize_angles_none(angle) == angle

\* rotations.normalize_angles: puts an angle into [-pi, pi]
normalize_angles(angle) == ((angle + Pi) % (2 * Pi)) - Pi

\* transformations.quat_angle_diff(quat_a, quat_b), in milliradians
quat_angle_diff(quat_a, quat_b) ==
    LET quat_diff  == quat_mul(quat_a, quat_conjugate(quat_b))
        angle_diff == TwoArccos(quat_diff[1])
    IN  Abs(normalize_angles(angle_diff))

ArgQuatNeg(q) == <<-q[1], -q[2], -q[3], -q[4]>>

\* two orientations handed to the distance functions
InitAngle ==
    /\ cfg = [kind |-> "none"]
    /\ sim = NoSim
    /\ env = NoEnv
    /\ pc = "start"
    /\ \E quat_a \in UnitQuats, quat_b \in UnitQuats :
          args = [quat_a |-> quat_a, quat_b |-> quat_b, ignore_target_rotation |-> FALSE]
    /\ ret = 0
    /\ hist = <<>>

\* quat_angle_diff(quat_a, quat_b)
CallQuatAngleDiff ==
    /\ pc = "start"
    /\ ret' = quat_angle_diff(args.quat_a, args.quat_b)
    /\ pc' = "quat_angle_diff"
    /\ UNCHANGED <<cfg, sim, env, args, hist>>

\* move.py _goal_distance on two poses at one position: the d_rot returned
CallGoalDistance(ignore_target_rotation) ==
    /\ pc = "start"
    /\ args' = [args EXCEPT !.ignore_target_rotation = ignore_target_rotation]
    /\ ret' = goal_distance(<<0, 0, 0>> \o args.quat_a, <<0, 0, 0>> \o args.quat_b,
                            ignore_target_rotation)[2]
    /\ pc' = "goal_distance"
    /\ UNCHANGED <<cfg, sim, env, hist>>

\* _PickAndPlaceEnv._goal_distance (ignore_target_rotation is always False)
CallPickAndPlaceGoalDistance ==
    /\ pc = "start"
    /\ ret' = PickAndPlaceEnv_goal_distance([ignore_target_rotation |-> FALSE],
                  <<0, 0, 0>> \o args.quat_a, <<0, 0, 0>> \o args.quat_b)[2]
    /\ pc' = "pick_and_place_goal_distance"
    /\ UNCHANGED <<cfg, sim, env, args, hist>>

NextAngle ==
    \/ CallQuatAngleDiff
    \/ \E ignore_target_rotation \in BOOLEAN : CallGoalDistance(ignore_target_rotation)
    \/ CallPickAndPlaceGoalDistance

SpecAngle == InitAngle /\ [][NextAngle]_vars

\* C11: the d_rot returned by _goal_distance is quat_angle_diff of the two
\* orientations when rotation is not ignored and 0 when it is; it lies in
\* [0, pi] and is 0 for a pair (q, -q).
C11_DRotIsAngleDiff ==
    pc \in {"goal_distance", "pick_and_place_goal_distance"} =>
        /\ ret = IF args.ignore_target_rotation THEN 0
                 ELSE quat_angle_diff(args.quat_a, args.quat_b)
        /\ 0 <= ret /\ ret <= Pi
        /\ args.quat_b = ArgQuatNeg(args.quat_a) => ret = 0

\* C12: quat_angle_diff(q, q) = 0 and quat_angle_diff(q, -q) = 0 for every unit
\* quaternion q, and the result is never negative.
C12_DoubleCover ==
    pc = "quat_angle_diff" =>
        /\ ret >= 0
        /\ args.quat_b = args.quat_a => ret = 0
        /\ args.quat_b = ArgQuatNeg(args.quat_a) => ret = 0

\* quat_angle_diff called on an opposite pair that is not (1, -1)
C12_Witness ==
    /\ pc = "quat_angle_diff"
    /\ args.quat_b = ArgQuatNeg(args.quat_a)
    /\ args.quat_a[1] = 1
    /\ ret = 0


----------------------------------------------------------------------------
(* Seeded instances: reset and goal sampling of two environments *)

\* A random source is [seed, pos]: the seed fixes the stream, every call
\* advances pos by one. The value a call returns is read off the stream at pos
\* according to the range the call asks for:
\*   unit  uniform()                   arm   uniform(-0.2, 0.2, size=2)
\*   obj   uniform(*table_safe_bounds)  noise uniform(-0.005, 0.005, size=2)
\*   joint uniform(pos_low, pos_high) / uniform(*jnt_range.T)
rng_draw(rng) ==
    LET stream == << <<0, 4, 2, 3, 1, 5, 0, 2>>,
                     <<3, 1, 5, 0, 4, 2, 1, 3>>,
                     <<1, 0, 3, 2, 5, 4, 4, 0>> >>[rng.seed + 1]
        k == stream[(rng.pos % 8) + 1]
    IN  [unit  |-> <<0, 500, 999>>[(k % 3) + 1],
         arm   |-> << <<0, 0>>, <<-200, 0>>, <<150, 150>> >>[(k % 3) + 1],
         obj   |-> << <<1100, 430>>, <<1489, 1049>> >>[(k % 2) + 1],
         noise |-> << <<-5, -5>>, <<0, 0>> >>[(k % 2) + 1],
         joint |-> <<-1000, 399>>[(k % 2) + 1]]

rng_next(rng) == [rng EXCEPT !.pos = (rng.pos + 1) % RngPeriod]

\* MovingHandEnv._reset_sim, the loop from pass n on: s0 is the simulator state
\* on entry, rng the instance's np_random
RECURSIVE reset_sim_loop(_, _, _, _, _, _)
reset_sim_loop(self, world, s0, rng, reset_to_grasp_state, n) ==
    IF reset_to_grasp_state /\ ~self.has_object
    THEN [sim |-> s0, rng |-> rng, outcome |-> "AssertionError", passes |-> n]
    ELSE IF reset_to_grasp_state /\ self.grasp_state = None
    THEN [sim |-> s0, rng |-> rng, outcome |-> "Error", passes |-> n]
    ELSE LET arm    == IF self.randomize_initial_arm_pos THEN rng_draw(rng).arm ELSE <<0, 0>>
             r1     == IF self.randomize_initial_arm_pos THEN rng_next(rng) ELSE rng
             places == self.has_object /\ ~reset_to_grasp_state
             d      == rng_draw(r1)
             r2     == IF places THEN rng_next(r1) ELSE r1
             s      == reset_pass(self, world, reset_to_grasp_state, arm, d.obj, d.noise)
         IN  IF ~self.has_object \/ reset_valid(s, reset_to_grasp_state)
             THEN [sim |-> s, rng |-> r2, outcome |-> "True", passes |-> n]
             ELSE IF n >= MaxPasses
             THEN [sim |-> s, rng |-> r2, outcome |-> "looping", passes |-> n]
             ELSE reset_sim_loop(self, world, s0, r2, reset_to_grasp_state, n + 1)

\* mutant: the goal-in-the-air choice drawn from the process-wide np.random
Mut_sample_goal_global(self, rng, np_global) ==
    LET xy == rng_draw(rng).obj
        z0 == IF self.has_object THEN initial_object_pos[3] ELSE 0
        r1 == rng_next(rng)
        in_the_air == rng_draw(np_global).unit < self.target_in_the_air_p
        z  == IF in_the_air THEN z0 + (450 * rng_draw(r1).unit) \div 1000 ELSE z0
    IN  [goal |-> <<xy[1], xy[2], z, 0, 0, 0, 0>>,
         rng |-> IF in_the_air THEN rng_next(r1) ELSE r1,
         np_global |-> rng_next(np_global)]

\* MovingHandEnv._sample_goal
MovingHandEnv_sample_goal(self, rng, np_global) ==
    LET xy == rng_draw(rng).obj
        z0 == IF self.has_object THEN initial_object_pos[3] ELSE 0
        r1 == rng_next(rng)
        in_the_air == rng_draw(r1).unit < self.target_in_the_air_p
        r2 == rng_next(r1)
        z  == IF in_the_air THEN z0 + (450 * rng_draw(r2).unit) \div 1000 ELSE z0
        goal == <<xy[1], xy[2], z, 0, 0, 0, 0>>
    IN  [goal |-> IF self.success_on_grasp_only THEN goal \o <<0>> ELSE goal,
         rng |-> IF in_the_air THEN rng_next(r2) ELSE r2,
         np_global |-> np_global]


\* YumiEnv._fk_position: the gripper centre the arm configuration q gives
\* (forward kinematics of the simulator, a fixed function of q)
fk_position(q, arm) ==
    <<IF q < 0 THEN -300 ELSE 100, IF arm = "l" THEN 200 ELSE -200, 300>>

\* YumiEnv._sample_goal, one of its two 'while True' loops from iteration n on
RECURSIVE sample_arm_goal(_, _, _)
sample_arm_goal(rng, arm, n) ==
    LET q   == rng_draw(rng).joint
        pos == fk_position(q, arm)
        \* self._target_bounds_l / self._target_bounds_r
        target_bounds == IF arm = "l" THEN << <<-200, 70, 50>>, <<350, 430, 600>> >>
                         ELSE << <<-200, -430, 50>>, <<350, -70, 600>> >>
    IN  IF check_range(pos, target_bounds[1], target_bounds[2], TRUE)
        THEN [pos |-> pos, rng |-> rng_next(rng), iterations |-> n, outcome |-> "True"]
        ELSE IF n >= MaxPasses
        THEN [pos |-> <<0, 0, 0>>, rng |-> rng_next(rng), iterations |-> n, outcome |-> "looping"]
        ELSE sample_arm_goal(rng_next(rng), arm, n + 1)

\* YumiEnv._sample_goal
YumiEnv_sample_goal(self, rng, np_global) ==
    IF self.has_object
    THEN [goal |-> <<0, 0, 0, 0, 0, 0>>, rng |-> rng, np_global |-> np_global,
          iterations |-> 0, outcome |-> "NotImplementedError"]
    ELSE LET none == [pos |-> <<0, 0, 0>>, rng |-> rng, iterations |-> 0, outcome |-> "True"]
             l == IF has_left_arm(self) THEN sample_arm_goal(rng, "l", 1) ELSE none
             r == IF has_right_arm(self) /\ l.outcome = "True"
                  THEN sample_arm_goal(l.rng, "r", 1)
                  ELSE [none EXCEPT !.rng = l.rng]
         IN  [goal |-> l.pos \o r.pos, rng |-> r.rng, np_global |-> np_global,
              iterations |-> l.iterations + r.iterations,
              outcome |-> IF l.outcome = "True" THEN r.outcome ELSE l.outcome]

\* RobotEnv.reset of one instance: _reset_sim until it returns True, then
\* self.goal = self._sample_goal()
RobotEnv_reset(self, world, inst, np_global) ==
    IF self.kind = "MovingHandEnv"
    THEN LET reset_to_grasp_state == self.grasp_state_reset_p > rng_draw(inst.rng).unit
             r == reset_sim_loop(self, world, inst.sim, rng_next(inst.rng),
                                 reset_to_grasp_state, 1)
             g == MovingHandEnv_sample_goal(self, r.rng, np_global)
         IN  IF r.outcome = "True"
             THEN [inst |-> [inst EXCEPT !.rng = g.rng, !.sim = r.sim, !.goal = g.goal,
                                         !.outcome = "True", !.passes = r.passes],
                   np_global |-> g.np_global]
             ELSE [inst |-> [inst EXCEPT !.rng = r.rng, !.sim = r.sim,
                                         !.outcome = r.outcome, !.passes = r.passes],
                   np_global |-> np_global]
    ELSE LET e  == [init_qpos |-> inst.sim.init_qpos, init_qvel |-> inst.sim.init_qvel]
             r1 == IF has_arm_l_joint_idx(self) THEN rng_next(inst.rng) ELSE inst.rng
             r2 == IF has_arm_r_joint_idx(self) THEN rng_next(r1) ELSE r1
             st == reset_sim_state(self, e)
             after == reset_sim_init(self, e, rng_draw(inst.rng).joint, rng_draw(r1).joint)
             g  == YumiEnv_sample_goal(self, r2, np_global)
         IN  [inst |-> [inst EXCEPT !.rng = g.rng,
                            !.sim = [qpos |-> st.qpos, qvel |-> st.qvel,
                                     init_qpos |-> after.init_qpos, init_qvel |-> after.init_qvel],
                            !.goal = IF g.outcome = "True" THEN g.goal ELSE @,
                            !.outcome = g.outcome, !.passes = g.iterations],
              np_global |-> g.np_global]

\* YumiEnv._get_obs in simulator state s: 7 joints per arm, 2 per gripper
YumiEnv_get_obs(self, s, goal) ==
    LET zeros(n) == [i \in 1..n |-> 0]
        rep(n, v) == [i \in 1..n |-> v]
        arm_l_qpos == IF has_left_arm(self) THEN rep(7, s.qpos.arm_l) ELSE zeros(0)
        arm_l_qvel == IF has_left_arm(self) THEN rep(7, Clip(s.qvel.arm_l, -10000, 10000)) ELSE zeros(0)
        gripper_l_pos == IF has_left_arm(self) THEN fk_position(s.qpos.arm_l, "l") ELSE zeros(0)
        gripper_l_qpos == IF has_gripper_l_joint_idx(self) THEN rep(2, s.qpos.grip_l) ELSE zeros(0)
        arm_r_qpos == IF has_right_arm(self) THEN rep(7, s.qpos.arm_r) ELSE zeros(0)
        arm_r_qvel == IF has_right_arm(self) THEN rep(7, Clip(s.qvel.arm_r, -10000, 10000)) ELSE zeros(0)
        gripper_r_pos == IF has_right_arm(self) THEN fk_position(s.qpos.arm_r, "r") ELSE zeros(0)
        gripper_r_qpos == IF has_gripper_r_joint_idx(self) THEN rep(2, s.qpos.grip_r) ELSE zeros(0)
        parts == <<arm_l_qpos, arm_l_qvel, gripper_l_qpos, arm_r_qpos, arm_r_qvel,
                   gripper_r_qpos, gripper_l_pos, gripper_r_pos>>
    IN  [observation |-> arm_l_qpos \o arm_l_qvel \o gripper_l_qpos \o arm_r_qpos
                         \o arm_r_qvel \o gripper_r_qpos \o gripper_l_pos \o gripper_r_pos,
         layout |-> [i \in 1..8 |-> Len(parts[i])],
         desired_goal |-> goal]

\* obs = self._get_obs() at the end of RobotEnv.reset and RobotEnv.step
RobotEnv_get_obs(self, inst) ==
    IF self.kind = "MovingHandEnv"
    THEN MovingHandEnv_get_obs(self, inst.sim, inst.goal)
    ELSE YumiEnv_get_obs(self, inst.sim, inst.goal)

\* how many TFDebugger.step calls after a TFDebugger.reset are explored
MaxTfSteps == 1

\* two instances of one configuration, constructed (each with the goal its
\* unseeded source gave it) and then seeded with the same seed
InitSeeded ==
    /\ cfg \in {[c EXCEPT !.ignore_target_rotation = b] @@ [target_in_the_air_p |-> 500] :
                    c \in MovingHandEnv_reset_configs, b \in BOOLEAN}
                 \cup YumiEnv_reset_configs
    /\ \E w \in (IF cfg.kind = "MovingHandEnv"
                  THEN {x \in WorldsOf(cfg) :
                          /\ x.vel_of[<<150, 150>>] = 0
                          /\ x.grasp_of[<<0, 0>>] = <<30, 0>>
                          /\ x.grasp_of[<<150, 150>>] = <<30, 0>>}
                  ELSE {NoSim}) :
          sim = [world |-> w, np_global |-> [seed |-> 1, pos |-> 0],
                 TFDebugger |-> [i |-> 0, ob1_pose |-> None]]
    /\ \E seed \in {0, 2} :
        LET s0 == IF cfg.kind = "MovingHandEnv"
                  THEN [mocap_pos |-> set_arm_pose(initial_arm_mocap_pos \o <<0, 0, 0, 0>>),
                        palm_pos |-> VAdd(initial_arm_mocap_pos, palm_offset),
                        object_pos |-> initial_object_pos, object_vel |-> 0,
                        snapshot |-> FALSE]
                  ELSE [qpos |-> loaded_qpos, qvel |-> loaded_qvel,
                        init_qpos |-> loaded_qpos, init_qvel |-> loaded_qvel]
            built(g) == [rng |-> [seed |-> seed, pos |-> 0], sim |-> s0, goal |-> g,
                         outcome |-> "constructed", passes |-> 0]
        IN  env = [a |-> built(<<1100, 430, 0>>), b |-> built(<<1489, 1049, 0>>)]
    /\ pc = "seeded"
    /\ args = <<>>
    /\ ret = None
    /\ hist = [resets |-> 0, layouts |-> {}]

\* seed(seed) called on both instances: a fresh np_random for each
SeedBoth(seed) ==
    /\ env' = [a |-> [env.a EXCEPT !.rng = [seed |-> seed, pos |-> 0]],
               b |-> [env.b EXCEPT !.rng = [seed |-> seed, pos |-> 0]]]
    /\ UNCHANGED <<cfg, sim, pc, args, ret, hist>>

\* reset() called on the first and then on the second instance
ResetBoth ==
    LET ra == RobotEnv_reset(cfg, sim.world, env.a, sim.np_global)
        rb == RobotEnv_reset(cfg, sim.world, env.b, ra.np_global)
    IN  /\ env' = [a |-> ra.inst, b |-> rb.inst]
        /\ sim' = [sim EXCEPT !.np_global = rb.np_global]
        /\ pc' = "reset"
        /\ hist' = [resets |-> IF hist.resets < MaxResets THEN hist.resets + 1 ELSE hist.resets,
                     layouts |-> IF ra.inst.outcome = "True"
                                 THEN hist.layouts \cup {RobotEnv_get_obs(cfg, ra.inst).layout}
                                 ELSE hist.layouts]
        /\ UNCHANGED <<cfg, args, ret>>

\* step(action) called on both instances with the same action. MovingHandEnv:
\* _set_action moves the arm target by action[20:23] * 0.1, kept within the
\* forearm bounds, the palm follows it, and the physics moves the object.
\* YumiEnv: the action sets the controls and the physics moves the left arm.
\* A step needs no reset that succeeded, only one that returned.
StepBoth(action) ==
    /\ pc \in {"seeded", "reset", "stepped"}
    /\ env.a.outcome # "looping" /\ env.b.outcome # "looping"
    /\ LET moved(inst) ==
              IF cfg.kind = "MovingHandEnv"
              THEN LET mocap_pos == MovingHandEnv_set_action(cfg, inst.sim.mocap_pos,
                                                             action).mocap_pos
                   IN  [inst EXCEPT !.sim.mocap_pos = mocap_pos,
                                    !.sim.palm_pos = VAdd(mocap_pos, palm_offset),
                                    !.sim.object_pos = VAdd(initial_object_pos, <<10, 0, 0>>),
                                    !.sim.object_vel = 100]
              ELSE [inst EXCEPT !.sim.qpos.arm_l = 50, !.sim.qvel.arm_l = 50]
       IN  /\ env' = [a |-> moved(env.a), b |-> moved(env.b)]
           /\ hist' = [hist EXCEPT !.layouts = @ \cup {RobotEnv_get_obs(cfg, moved(env.a)).layout}]
    /\ pc' = "stepped"
    /\ UNCHANGED <<cfg, sim, args, ret>>

\* transformations.render_pose(pose, viewer): nothing without a viewer, else
\* a marker colour drawn from the process-wide np.random
RenderPose(viewer) ==
    /\ sim' = IF viewer = None THEN sim ELSE [sim EXCEPT !.np_global = rng_next(@)]
    /\ UNCHANGED <<cfg, env, pc, args, ret, hist>>

\* TFDebugger.reset(): the counter back to 0, the two poses set, unique_ids
\* drawn from the process-wide np.random
TFDebugger_reset ==
    /\ sim' = [sim EXCEPT !.TFDebugger = [i |-> 0, ob1_pose |-> "set"],
                          !.np_global = rng_next(@)]
    /\ UNCHANGED <<cfg, env, pc, args, ret, hist>>

\* TFDebugger.step(viewer): before the first reset() the poses are None and
\* the first subscript raises TypeError; afterwards render_pose is called on
\* the two poses, and the counter goes up to 37, from where on a third pose
\* is rendered
TFDebugger_step(viewer) ==
    /\ sim.TFDebugger.ob1_pose # None
    /\ LET i == sim.TFDebugger.i
           rendered == IF viewer = None THEN 0 ELSE IF i < 37 THEN 2 ELSE 3
           drawn[k \in 0..3] == IF k = 0 THEN sim.np_global ELSE rng_next(drawn[k - 1])
       IN  sim' = [sim EXCEPT !.TFDebugger.i = IF i < 37 THEN i + 1 ELSE i,
                              !.np_global = drawn[rendered]]
    /\ UNCHANGED <<cfg, env, pc, args, ret, hist>>

\* the actions both instances are stepped with: the arm target left where it
\* is, or lowered by 0.1 (MovingHandEnv, 20 hand controls and 7 for the arm)
SeededActions(self) ==
    IF self.kind = "MovingHandEnv"
    THEN {[i \in 1..20 |-> 0] \o d \o <<0, 0, 0, 0>> : d \in {<<0, 0, 0>>, <<0, 0, -1000>>}}
    ELSE {[i \in 1..((IF has_two_arms(self) THEN 2 ELSE 1)
                     * (IF self.block_gripper THEN 7 ELSE 8)) |-> 0]}

NextSeeded ==
    \/ \E seed \in {0, 2} : SeedBoth(seed)
    \/ ResetBoth
    \/ \E action \in SeededActions(cfg) : StepBoth(action)
    \/ \E viewer \in {None, "viewer"} : RenderPose(viewer)
    \/ TFDebugger_reset
    \/ \E viewer \in {None, "viewer"} : sim.TFDebugger.i < MaxTfSteps /\ TFDebugger_step(viewer)

SpecSeeded == InitSeeded /\ [][NextSeeded]_vars

\* C20: apart from the reset retry loop of MovingHandEnv every operation, in
\* particular YumiEnv._sample_goal, returns after a number of iterations
\* bounded by a constant that does not depend on the random draws: whatever
\* the seed, each loop of _sample_goal has returned before MaxPasses
\* iterations are over.
C20_SampleGoalBounded ==
    (cfg.kind = "YumiEnv" /\ pc = "reset") => env.a.outcome # "looping"


\* C14: the observation vector has the same layout, hence the same length,
\* after every reset and every step of one configuration: all observations
\* returned so far consist of the same parts with the same lengths, their sum
\* is the length of the vector, and _get_obs of MovingHandEnv computed with
\* has_object false leaves the three object parts (4th, 7th and 8th) empty.
C14_ObsLayoutFixed ==
    /\ Cardinality(hist.layouts) <= 1
    /\ (pc \in {"reset", "stepped"} /\ env.a.outcome = "True") =>
          LET obs == RobotEnv_get_obs(cfg, env.a)
              sum == obs.layout[1] + obs.layout[2] + obs.layout[3] + obs.layout[4]
                     + obs.layout[5] + obs.layout[6] + obs.layout[7] + obs.layout[8]
          IN  /\ hist.layouts = {obs.layout}
              /\ Len(obs.observation) = sum
              /\ cfg.kind = "MovingHandEnv" =>
                    LET bare == MovingHandEnv_get_obs([cfg EXCEPT !.has_object = FALSE],
                                                      env.a.sim, env.a.goal)
                    IN  bare.layout = <<6, 3, 3, 0, 24, 24, 0, 0>>
              /\ (cfg.kind = "MovingHandEnv" /\ cfg.has_object) =>
                    obs.layout[4] = 3 /\ obs.layout[7] = 6 /\ obs.layout[8] = 6

\* a step after a second reset in an environment with an object, the object
\* moving after the step
C14_Witness ==
    /\ pc = "stepped" /\ hist.resets >= 2
    /\ cfg.kind = "MovingHandEnv" /\ cfg.has_object
    /\ env.a.sim.object_vel > 0
    /\ hist.layouts = {<<6, 3, 3, 3, 24, 24, 6, 6>>}


-----------------------------------------------------------------------------
(* Two instances seeded alike and called alike, each on its own *)

\* the length of the call sequence the two instances are given
MaxCalls == 3

\* two instances of one configuration, constructed (each with the goal its
\* unseeded source gave it) and seeded with the same seed, and the sequence
\* of reset() and step(action) calls both are going to receive. The
\* process-wide np.random is shared by everything in the process.
InitSameSeed ==
    /\ cfg \in {c @@ [target_in_the_air_p |-> 500] : c \in
                    {x \in MovingHandEnv_reset_configs :
                        /\ x.randomize_initial_arm_pos /\ x.randomize_initial_object_pos
                        /\ x.grasp_state = "snapshot" /\ x.grasp_state_reset_p = 500}}
                 \cup {c \in YumiEnv_reset_configs : c.arm = "both" /\ c.block_gripper}
    /\ \E w \in (IF cfg.kind = "MovingHandEnv"
                  THEN {x \in WorldsOf(cfg) :
                          /\ x.vel_of[<<-200, 0>>] = 800 /\ x.vel_of[<<150, 150>>] = 0
                          /\ x.grasp_of[<<0, 0>>] = <<30, 0>>
                          /\ x.grasp_of[<<-200, 0>>] = <<100, 0>>
                          /\ x.grasp_of[<<150, 150>>] = <<30, 0>>}
                  ELSE {NoSim}) :
          sim = [world |-> w, np_global |-> [seed |-> 1, pos |-> 0]]
    /\ \E seed \in {0, 2} :
        LET s0 == IF cfg.kind = "MovingHandEnv"
                  THEN [mocap_pos |-> set_arm_pose(initial_arm_mocap_pos \o <<0, 0, 0, 0>>),
                        palm_pos |-> VAdd(initial_arm_mocap_pos, palm_offset),
                        object_pos |-> initial_object_pos, object_vel |-> 0,
                        snapshot |-> FALSE]
                  ELSE [qpos |-> loaded_qpos, qvel |-> loaded_qvel,
                        init_qpos |-> loaded_qpos, init_qvel |-> loaded_qvel]
            built(g) == [rng |-> [seed |-> seed, pos |-> 0], sim |-> s0, goal |-> g,
                         outcome |-> "constructed", passes |-> 0,
                         calls |-> 0, log |-> <<>>]
        IN  env = [a |-> built(<<1100, 430, 0>>), b |-> built(<<1489, 1049, 0>>)]
    /\ pc = "seeded"
    /\ args = <<>>
    /\ ret = None
    /\ \E script \in [1..MaxCalls ->
                         {[call |-> "reset", action |-> <<>>]}
                             \cup {[call |-> "step", action |-> x] :
                                       \* MovingHandEnv: the arm target lowered by 0.1
                                       x \in {y \in SeededActions(cfg) :
                                                 cfg.kind = "MovingHandEnv" => y[23] # 0}}] :
          hist = [script |-> script, apart |-> FALSE,
                  first |-> [k |-> 0, np_global |-> sim.np_global, sim |-> NoSim]]

\* reset() of instance i, the next call of its sequence. The instance keeps a
\* log of what its resets returned (outcome, passes of the loop, simulator
\* state, goal, position of np_random, and whether the process-wide np.random
\* was left alone). hist.first is what the k-th reset of the instance that
\* made it first found on entry, kept until the other instance makes its
\* k-th; hist.apart tells whether that one found both another simulator state
\* and another position of the process-wide np.random.
CallReset(i) ==
    /\ env[i].calls < MaxCalls
    /\ hist.script[env[i].calls + 1].call = "reset"
    /\ env[i].outcome # "looping"
    /\ LET r == RobotEnv_reset(cfg, sim.world, env[i], sim.np_global)
           returned == [outcome |-> r.inst.outcome, passes |-> r.inst.passes,
                        sim |-> r.inst.sim, rng |-> r.inst.rng,
                        goal |-> IF r.inst.outcome = "True" THEN r.inst.goal ELSE <<>>,
                        np_random_only |-> r.np_global = sim.np_global]
           k == Len(env[i].log) + 1
           second == hist.first.k = k
       IN  /\ env' = [env EXCEPT ![i] = [r.inst EXCEPT !.calls = @ + 1,
                                                      !.log = Append(@, returned)]]
           /\ sim' = [sim EXCEPT !.np_global = r.np_global]
           /\ hist' = [hist EXCEPT
                  !.apart = /\ second
                            /\ hist.first.np_global # sim.np_global
                            /\ hist.first.sim # env[i].sim,
                  !.first = IF second
                            THEN [k |-> 0, np_global |-> [seed |-> 1, pos |-> 0], sim |-> NoSim]
                            ELSE [k |-> k, np_global |-> sim.np_global, sim |-> env[i].sim]]
    /\ pc' = "reset"
    /\ UNCHANGED <<cfg, args, ret>>

\* step(action) of instance i, the next call of its sequence. MovingHandEnv:
\* _set_action moves the arm target by action[20:23] * 0.1, kept within the
\* forearm bounds, the palm follows it, and the physics leaves the object at
\* rest where it is or moves it. YumiEnv: the action sets the controls and the
\* physics leaves the left arm where it is or moves it. What the physics does
\* is not fixed by the call: it may differ between the two instances.
CallStep(i, physics) ==
    /\ env[i].calls < MaxCalls
    /\ hist.script[env[i].calls + 1].call = "step"
    /\ env[i].outcome # "looping"
    /\ LET action == hist.script[env[i].calls + 1].action
           inst == env[i]
           moved ==
              IF cfg.kind = "MovingHandEnv"
              THEN LET mocap_pos == MovingHandEnv_set_action(cfg, inst.sim.mocap_pos,
                                                             action).mocap_pos
                   IN  [inst EXCEPT !.sim.mocap_pos = mocap_pos,
                                    !.sim.palm_pos = VAdd(mocap_pos, palm_offset),
                                    !.sim.object_pos = IF physics = "moves"
                                                       THEN VAdd(initial_object_pos, <<10, 0, 0>>)
                                                       ELSE @,
                                    !.sim.object_vel = IF physics = "moves" THEN 100 ELSE 0]
              ELSE [inst EXCEPT !.sim.qpos.arm_l = IF physics = "moves" THEN 50 ELSE @,
                                !.sim.qvel.arm_l = IF physics = "moves" THEN 50 ELSE 0]
       IN  env' = [env EXCEPT ![i] = [moved EXCEPT !.calls = @ + 1]]
    /\ pc' = "stepped"
    /\ UNCHANGED <<cfg, sim, args, ret, hist>>

NextSameSeed ==
    \/ \E i \in {"a", "b"} : CallReset(i)
    \/ \E i \in {"a", "b"}, physics \in {"rests", "moves"} : CallStep(i, physics)
    \/ \E viewer \in {None, "viewer"} : RenderPose(viewer)

SpecSameSeed == InitSameSeed /\ [][NextSameSeed]_vars

\* C13: two instances of one configuration seeded with the same seed and given
\* the same sequence of reset and step calls return the same from their k-th
\* resets, for every k both have reached: the same reset outcome, number of
\* passes, simulator state, goal and position of np_random, and no reset
\* draws from the process-wide np.random. The calls of the two instances are
\* interleaved in any order, with draws from the process-wide np.random and
\* steps whose physics differ in between.
\* (A reset that raises samples no goal and leaves the one of construction.)
C13_SameSeedSameOutcomes ==
    \A k \in 1..MaxCalls :
        (k <= Len(env.a.log) /\ k <= Len(env.b.log)) =>
            /\ env.a.log[k] = env.b.log[k]
            /\ env.a.log[k].np_random_only

\* the second resets of both instances, which found different simulator
\* states and different positions of the process-wide np.random on entry,
\* one from the snapshot and one with the object placed at random; the first
\* needed more than one pass and raised the goal into the air
C13_Witness ==
    /\ Len(env.a.log) = 2 /\ Len(env.b.log) = 2
    /\ cfg.kind = "MovingHandEnv" /\ cfg.has_object
    /\ hist.apart
    /\ env.a.log[1].outcome = "True" /\ env.a.log[1].passes > 1
    /\ env.a.log[1].goal[3] > initial_object_pos[3]
    /\ env.a.log[2].outcome = "True"
    /\ env.a.log[2].sim.snapshot # env.a.log[1].sim.snapshot
    /\ env.b.log = env.a.log


----------------------------------------------------------------------------
(* Construction: what __init__ raises and whether the simulator is created *)

\* a constructor is about to be called with the arguments cfg
InitCtor ==
    /\ cfg \in [kind : {"MovingHandEnv"}, reward_type : {"sparse", "dense"},
                has_object : BOOLEAN, ignore_target_rotation : BOOLEAN,
                ignore_rotation_ctrl : BOOLEAN, success_on_grasp_only : BOOLEAN,
                grasp_state : {None, "True", "False", "snapshot"},
                grasp_state_reset_p : {-100, 0, 500}]
               \cup [kind : {"YumiEnv"}, arm : {"right", "left", "both", "middle"},
                     reward_type : {"sparse", "dense", "shaped"},
                     block_gripper : BOOLEAN, has_object : BOOLEAN,
                     distance_threshold : {50}]
               \cup YumiConstrainedEnv_step_configs
    /\ args \in [file_exists : BOOLEAN]
    /\ sim = NoSim
    /\ env = NoEnv
    /\ pc = "new"
    /\ ret = [raised |-> None, sim_created |-> FALSE]
    /\ hist = <<>>

Construct ==
    /\ pc = "new"
    /\ ret' = CASE cfg.kind = "MovingHandEnv" -> MovingHandEnv_init(cfg, args.file_exists)
                [] cfg.kind = "YumiEnv" -> YumiEnv_init(cfg)
                [] cfg.kind = "YumiConstrainedEnv" -> YumiConstrainedEnv_init(cfg)
    /\ sim' = IF ret'.sim_created THEN [kind |-> "created"] ELSE sim
    /\ pc' = IF ret'.raised = None THEN "constructed" ELSE "raised"
    /\ UNCHANGED <<cfg, env, args, hist>>

\* an accessor of MovingHandEnv called on the constructed environment; none
\* of them writes
CallAccessor(accessor, body_exists) ==
    /\ pc \in {"constructed", "accessed"}
    /\ cfg.kind = "MovingHandEnv"
    /\ cfg.has_object => body_exists
    /\ LET s0 == [mocap_pos |-> set_arm_pose(initial_arm_mocap_pos \o <<0, 0, 0, 0>>),
                  palm_pos |-> VAdd(initial_arm_mocap_pos, palm_offset),
                  object_pos |-> initial_object_pos, object_vel |-> 0]
           outcome ==
               CASE accessor = "get_object_contact_points" -> get_object_contact_points(cfg, s0)
                 [] accessor = "_get_object_pose" ->
                        MovingHandEnv_get_object_pose(cfg, s0, body_exists)
                 [] OTHER -> IF Len(MovingHandEnv_get_obs(cfg, s0, <<0, 0, 0>>).observation) > 0
                             THEN "obs" ELSE "Error"
       IN  hist' = [accessor |-> accessor, outcome |-> outcome]
    /\ pc' = "accessed"
    /\ UNCHANGED <<cfg, sim, env, args, ret>>

NextCtor ==
    \/ Construct
    \/ \E accessor \in {"get_object_contact_points", "_get_object_pose", "_get_obs"},
          body_exists \in BOOLEAN : CallAccessor(accessor, body_exists)

SpecCtor == InitCtor /\ [][NextCtor]_vars

\* the flag combinations C15 lists
ArgInvalidFlags ==
    IF cfg.kind = "MovingHandEnv"
    THEN \/ cfg.ignore_rotation_ctrl /\ ~cfg.ignore_target_rotation
         \/ cfg.success_on_grasp_only /\ (cfg.reward_type # "sparse" \/ ~cfg.has_object)
         \/ cfg.grasp_state # None /\ cfg.grasp_state_reset_p <= 0
    ELSE /\ cfg.kind = "YumiEnv"
         /\ \/ cfg.arm \notin {"right", "left", "both"}
            \/ cfg.reward_type \notin {"sparse", "dense"}

\* C15 as stated: every listed invalid flag combination makes the constructor
\* raise ValueError before any simulator is created.
C15_InvalidRaisesValueError ==
    (pc # "new" /\ ArgInvalidFlags) =>
        pc = "raised" /\ ret.raised = "ValueError" /\ sim = NoSim

\* C15 amended: every listed invalid flag combination makes the constructor
\* raise before any simulator is created; the exception is ValueError, except
\* that grasp_state=True with the snapshot file missing raises IOError, which
\* comes before every flag check.
C15_InvalidRejected ==
    (pc # "new" /\ ArgInvalidFlags) =>
        /\ pc = "raised" /\ sim = NoSim
        /\ ret.raised = (IF cfg.kind = "MovingHandEnv" /\ cfg.grasp_state = "True"
                            /\ ~args.file_exists
                         THEN "IOError" ELSE "ValueError")

\* success_on_grasp_only without an object, everything else valid
C15_Witness ==
    /\ pc = "raised" /\ cfg.kind = "MovingHandEnv"
    /\ cfg.success_on_grasp_only /\ ~cfg.has_object /\ cfg.reward_type = "sparse"
    /\ ~cfg.ignore_rotation_ctrl /\ cfg.grasp_state = None
    /\ ret.raised = "ValueError" /\ sim = NoSim


\* C16: the pre-grasped snapshot self.grasp_state is never modified: after any
\* sequence of resets and steps its contents are those it had at
\* construction, and the simulator works on a copy of it.
C16_SnapshotReadOnly ==
    cfg.grasp_state # None =>
        /\ env.grasp_state = grasp_state_contents
        /\ ~sim.shares

\* an episode started from the snapshot has been stepped: the simulator state
\* restored from the snapshot has been written, the snapshot has not
C16_Witness ==
    /\ pc = "stepped" /\ sim.snapshot /\ cfg.grasp_state # None
    /\ sim.object_pos # grasp_state_contents.object_pos
    /\ sim.object_vel # grasp_state_contents.object_vel
    /\ env.grasp_state = grasp_state_contents

\* C18: in each attempt of _reset_sim the settle steps run after the object's
\* planar position has been set and before validation: when an attempt that
\* placed the object has been validated, the 10 settle steps lie between the
\* placement and the validation.
C18_SettleAfterPlacement ==
    (pc \in {"loop", "returned"} /\ hist.passes >= 1 /\ cfg.has_object /\ ~sim.snapshot) =>
        sim.steps_after_placement = 10

\* C19: every attempt of the retry loop starts from the same simulator state
\* (positions, velocities, arm mocap pose, control targets): the states right
\* after the restore at the top of the attempts of one reset are all equal.
C19_AttemptsStartEqual ==
    Cardinality(hist.starts) <= 1


-----------------------------------------------------------------------------
(* YumiConstrainedEnv._move_arms: the control loop *)

\* the errors of the two arms against their targets that the physics can leave:
\* positions in mm, 0 or pos_threshold = 20, orientations in mrad, 0 or
\* rot_threshold = 100 (an error equal to its threshold has not converged)
ArmErrors == [pos_l : {0, 20}, pos_r : {0, 20}, rot_l : {0, 100}, rot_r : {0, 100}]

\* one iteration of _move_arms that stops on the position error alone
Mut_move_arms_iteration_pos_only(a, l, e, still_above_table) ==
    LET Max(x, y) == IF x >= y THEN x ELSE y
        max_pos_err == Max(e.pos_l, e.pos_r)
        max_rot_err == Max(e.rot_l, e.rot_r)
        converged == max_pos_err < a.pos_threshold
        counts == ~converged /\ a.count_stable_steps
    IN  [max_pos_err |-> [neg_inf |-> FALSE, value |-> max_pos_err],
         stable_steps |-> IF counts /\ still_above_table
                          THEN l.stable_steps + 1 ELSE l.stable_steps,
         physics_steps |-> 1,
         break |-> converged \/ (counts /\ ~still_above_table /\ l.i > 10)]

\* one iteration of the loop of _move_arms (lines 316-386) with the arguments
\* a and the loop variables l: e are the errors of the arms measured at its
\* start, still_above_table what the stability test of lines 378-381 finds
\* after its physics step
move_arms_iteration(a, l, e, still_above_table) ==
    LET Max(x, y) == IF x >= y THEN x ELSE y
        max_pos_err == Max(e.pos_l, e.pos_r)
        max_rot_err == Max(e.rot_l, e.rot_r)
        converged == max_pos_err < a.pos_threshold /\ max_rot_err < a.rot_threshold
        counts == ~converged /\ a.count_stable_steps
    IN  [max_pos_err |-> [neg_inf |-> FALSE, value |-> max_pos_err],
         stable_steps |-> IF counts /\ still_above_table
                          THEN l.stable_steps + 1 ELSE l.stable_steps,
         physics_steps |-> 1,
         break |-> converged \/ (counts /\ ~still_above_table /\ l.i > 10)]

\* lines 388-391: the value returned with the loop variables l
move_arms_return(a, l) ==
    IF a.count_stable_steps
    THEN [kind |-> "stable_steps", neg_inf |-> FALSE, value |-> l.stable_steps]
    ELSE [kind |-> "max_pos_err", neg_inf |-> l.max_pos_err.neg_inf,
          value |-> l.max_pos_err.value]

\* _move_arms has been called: lines 307-314
InitMoveArms ==
    /\ cfg = [kind |-> "YumiConstrainedEnv"]
    /\ args \in [max_steps : {0, 1, 5, MaxSteps}, count_stable_steps : BOOLEAN,
                 pos_threshold : {20}, rot_threshold : {100}]
    /\ \E e \in ArmErrors : sim = [err |-> e, physics_steps |-> 0]
    /\ env = [i |-> 0, stable_steps |-> 0, max_pos_err |-> [neg_inf |-> TRUE, value |-> 0]]
    /\ pc = "call"
    /\ ret = [kind |-> "none", neg_inf |-> FALSE, value |-> 0]
    /\ hist = [iterations |-> 0, measured |-> sim.err, consecutive |-> 0,
               stable |-> 0, last_unstable |-> FALSE,
               entry_at_target |-> sim.err = [pos_l |-> 0, pos_r |-> 0, rot_l |-> 0, rot_r |-> 0]]

\* for i in range(max_steps): entering the loop, or returning at once
MoveArmsEnter ==
    /\ pc = "call"
    /\ pc' = IF args.max_steps > 0 THEN "loop" ELSE "returned"
    /\ ret' = IF args.max_steps > 0 THEN ret ELSE move_arms_return(args, env)
    /\ UNCHANGED <<cfg, sim, env, args, hist>>

\* one iteration; the physics step leaves the errors e and the object still
\* and above the table or not
MoveArmsIteration(e, still_above_table) ==
    /\ pc = "loop"
    /\ LET r == move_arms_iteration(args, env, sim.err, still_above_table)
           l == [i |-> env.i + 1, stable_steps |-> r.stable_steps,
                 max_pos_err |-> r.max_pos_err]
           done == r.break \/ env.i + 1 >= args.max_steps
           \* the stability test of lines 376-386 is made in this iteration
           tested == /\ args.count_stable_steps
                     /\ \/ sim.err.pos_l >= args.pos_threshold
                        \/ sim.err.pos_r >= args.pos_threshold
                        \/ sim.err.rot_l >= args.rot_threshold
                        \/ sim.err.rot_r >= args.rot_threshold
       IN  /\ env' = l
           /\ sim' = [err |-> e, physics_steps |-> sim.physics_steps + r.physics_steps]
           \* consecutive: the stable iterations in a row up to this one; an
           \* iteration that ends the loop is not an iteration of the run.
           \* stable: the iterations so far whose test found the object
           \* stable; last_unstable: the test of this one found it not stable
           /\ hist' = [hist EXCEPT !.iterations = @ + 1, !.measured = sim.err,
                                   !.consecutive =
                                       IF r.break \/ ~args.count_stable_steps THEN @
                                       ELSE IF still_above_table THEN @ + 1 ELSE 0,
                                   !.stable = IF tested /\ still_above_table THEN @ + 1 ELSE @,
                                   !.last_unstable = tested /\ ~still_above_table]
           /\ pc' = IF done THEN "returned" ELSE "loop"
           /\ ret' = IF done THEN move_arms_return(args, l) ELSE ret
    /\ UNCHANGED <<cfg, args>>

NextMoveArms ==
    \/ MoveArmsEnter
    \/ \E e \in ArmErrors, b \in BOOLEAN : MoveArmsIteration(e, b)

SpecMoveArms == InitMoveArms /\ [][NextMoveArms]_vars

\* the last iteration measured every error below its threshold
ArgLastConverged ==
    /\ hist.iterations >= 1
    /\ hist.measured.pos_l < args.pos_threshold /\ hist.measured.pos_r < args.pos_threshold
    /\ hist.measured.rot_l < args.rot_threshold /\ hist.measured.rot_r < args.rot_threshold

\* C17 as stated: one physics step per iteration and at most max_steps
\* iterations; the loop never goes on after an iteration that measured both
\* errors below their thresholds, and stops only after such an iteration or
\* with the budget exhausted; with both arms at their targets on entry it
\* stops after exactly 1 iteration and returns a maximum position error of 0.
C17_StopsOnConvergenceOrBudget ==
    /\ sim.physics_steps = hist.iterations
    /\ hist.iterations <= args.max_steps
    /\ pc = "loop" => ~ArgLastConverged
    /\ pc = "returned" =>
          /\ ArgLastConverged \/ hist.iterations = args.max_steps
          /\ hist.entry_at_target =>
                /\ hist.iterations = 1
                /\ ret.kind = "max_pos_err" /\ ~ret.neg_inf /\ ret.value = 0

\* C17 amended: one physics step per iteration and at most max_steps
\* iterations. The loop stops after the first iteration that measured both
\* errors below their thresholds and, with count_stable_steps, after the first
\* iteration of index > 10 whose test found the object not still or touching
\* the table; it stops after no other iteration unless the budget is
\* exhausted. It returns the maximum position error measured in the last
\* iteration (-inf when there was none) or, with count_stable_steps, the
\* number of iterations whose test found the object stable (0 when there was
\* none). With both arms at their targets on entry and max_steps >= 1 it
\* stops after exactly 1 iteration and returns 0.
C17_MoveArmsLoop ==
    LET exit == \/ ArgLastConverged
                \/ args.count_stable_steps /\ hist.iterations > 11 /\ hist.last_unstable
        max_measured == IF hist.measured.pos_l >= hist.measured.pos_r
                        THEN hist.measured.pos_l ELSE hist.measured.pos_r
    IN  /\ sim.physics_steps = hist.iterations
        /\ hist.iterations <= args.max_steps
        /\ pc = "loop" => ~exit
        /\ pc = "returned" =>
              /\ exit \/ hist.iterations = args.max_steps
              /\ IF args.count_stable_steps
                 THEN ret = [kind |-> "stable_steps", neg_inf |-> FALSE, value |-> hist.stable]
                 ELSE /\ ret.kind = "max_pos_err"
                      /\ ret.neg_inf <=> hist.iterations = 0
                      /\ hist.iterations >= 1 => ret.value = max_measured
              /\ (hist.entry_at_target /\ args.max_steps >= 1) =>
                    /\ hist.iterations = 1
                    /\ ~ret.neg_inf /\ ret.value = 0

\* both arms at their targets on entry, a budget of MaxSteps: returned after
\* one iteration and one physics step with error 0
C17_Witness ==
    /\ pc = "returned" /\ hist.entry_at_target /\ args.max_steps = MaxSteps
    /\ ~args.count_stable_steps
    /\ hist.iterations = 1 /\ sim.physics_steps = 1
    /\ ret = [kind |-> "max_pos_err", neg_inf |-> FALSE, value |-> 0]


\* C29: every configuration the MovingHandEnv constructor accepts can be reset
\* any number of times without an assertion failure or error inside
\* _reset_sim: no pass of the loop raises.
C29_ResetNeverRaises ==
    pc # "raised"


\* C21: after any sequence of resets and steps of MovingHandEnv the commanded
\* arm (mocap) target position lies inside forearm_bounds on every axis.
C21_MocapInsideBounds ==
    check_range(sim.mocap_pos, forearm_bounds[1], forearm_bounds[2], TRUE)

\* a step whose action asked for a position beyond the box on two axes: the
\* target sits on the lower x bound and on the upper z bound
C21_Witness ==
    /\ pc = "stepped"
    /\ sim.mocap_pos[1] = forearm_bounds[1][1]
    /\ sim.mocap_pos[3] = forearm_bounds[2][3]


\* C22: in each iteration of _move_arms the errors that the convergence test
\* and the return value use are measured after that iteration's physics step:
\* the error returned is the position error of the poses the arms have when
\* _move_arms returns, and a return before the budget is exhausted leaves
\* every error below its threshold.
C22_ErrorsMeasuredAfterStep ==
    (pc = "returned" /\ hist.iterations >= 1 /\ ~args.count_stable_steps) =>
        /\ ret.value = (IF sim.err.pos_l >= sim.err.pos_r
                        THEN sim.err.pos_l ELSE sim.err.pos_r)
        /\ hist.iterations < args.max_steps =>
              /\ sim.err.pos_l < args.pos_threshold /\ sim.err.pos_r < args.pos_threshold
              /\ sim.err.rot_l < args.rot_threshold /\ sim.err.rot_r < args.rot_threshold


\* C23: in stability-counting mode _move_arms returns the number of
\* consecutive iterations in which the object was still relative to the grasp
\* centre and clear of the table: an unstable iteration never leaves earlier
\* stable iterations in the returned count.
C23_ReturnsConsecutiveStable ==
    (pc = "returned" /\ args.count_stable_steps) =>
        ret.kind = "stable_steps" /\ ret.value = hist.consecutive


-----------------------------------------------------------------------------
(* YumiConstrainedEnv._controller: the PD law of the arms in _move_arms *)

\* _controller(error, prev_error, k) with the time step dt in ms: joint errors
\* in mrad (two joints stand for the seven of an arm), d_err in mrad/s, the
\* command in thousandths. Returns the command and prev_error as it is left.
controller(error, prev_error, k, dt) ==
    LET d_err == IF \A j \in DOMAIN prev_error : prev_error[j] = 0
                 THEN [j \in DOMAIN error |-> 0]
                 ELSE [j \in DOMAIN error |-> ((error[j] - prev_error[j]) * 1000) \div dt]
    IN  [u |-> [j \in DOMAIN error |-> -((error[j] + (50 * d_err[j]) \div 1000) * k)],
         d_err |-> d_err,
         prev_error |-> error]

\* _move_arms, lines 307-314: u, prev_err_l and prev_err_r start at zero
InitController ==
    /\ cfg = [kind |-> "YumiConstrainedEnv"]
    /\ args = [k |-> 2, dt |-> 4]
    /\ sim = [u |-> [l |-> <<0, 0>>, r |-> <<0, 0>>]]
    /\ env = [prev_err_l |-> <<0, 0>>, prev_err_r |-> <<0, 0>>]
    /\ pc = "loop"
    /\ ret = None
    /\ hist = [i |-> 0, err |-> [l |-> <<0, 0>>, r |-> <<0, 0>>],
               last |-> [l |-> <<0, 0>>, r |-> <<0, 0>>],
               d_err |-> [l |-> <<0, 0>>, r |-> <<0, 0>>]]

\* one iteration of _move_arms (lines 326-362) with the joint errors
\* curr_q - target_q of the two arms: the commands of the arms are computed
\* with their own previous errors, and u is clipped to the action bounds
MoveArmsControl(err_l, err_r) ==
    /\ pc = "loop"
    /\ hist.i < MaxPasses
    /\ LET cl == controller(err_l, env.prev_err_l, args.k, args.dt)
           cr == controller(err_r, env.prev_err_r, args.k, args.dt)
           clip(u) == [j \in DOMAIN u |-> Clip(u[j], -1000, 1000)]
       IN  /\ env' = [prev_err_l |-> cl.prev_error, prev_err_r |-> cr.prev_error]
           /\ sim' = [u |-> [l |-> clip(cl.u), r |-> clip(cr.u)]]
           /\ hist' = [i |-> hist.i + 1, err |-> [l |-> err_l, r |-> err_r],
                       last |-> hist.err, d_err |-> [l |-> cl.d_err, r |-> cr.d_err]]
    /\ UNCHANGED <<cfg, args, pc, ret>>

NextController ==
    \E err_l, err_r \in {<<0, 0>>, <<8, 0>>, <<400, -800>>} : MoveArmsControl(err_l, err_r)

SpecController == InitController /\ [][NextController]_vars

\* C24: the PD derivative term of each arm is zero in the first iteration
\* and, in every later iteration, (that arm's joint error - that arm's joint
\* error of the previous iteration) / dt; the command applied lies within the
\* actuator bounds.
C24_DerivativeFromPreviousError ==
    /\ hist.i = 1 => \A a \in {"l", "r"} : hist.d_err[a] = <<0, 0>>
    /\ hist.i >= 2 =>
          \A a \in {"l", "r"} : \A j \in 1..2 :
              hist.d_err[a][j] = ((hist.err[a][j] - hist.last[a][j]) * 1000) \div args.dt
    /\ \A a \in {"l", "r"} : \A j \in 1..2 : sim.u[a][j] >= -1000 /\ sim.u[a][j] <= 1000


\* C25: the action vector is decoded in the same fixed order on every call.
\* YumiConstrainedEnv: entry 0 is the gripper separation, entries 1-3 the
\* position delta, the next 4 the orientation delta if rotation control is
\* enabled (identity otherwise), the next 2 the left and right finger commands
\* if finger control is enabled (-1 otherwise), and the declared length
\* 4 + 4*rotation + 2*fingers is the number of entries read. MovingHandEnv:
\* entries 0-19 are the hand commands, the rest the forearm position delta
\* (3) and then the orientation delta, scaled by 0.1.
C25_DecodingOrder ==
    /\ pc \in {"stepped", "raised"} =>
          LET a == [i \in DOMAIN args |-> Clip(args[i], action_low, action_high)]
              n == Len(args)
          IN  /\ hist.u.dist_between_grippers = a[1]
              /\ hist.u.grasp_center_pos_delta = <<a[2], a[3], a[4]>>
              /\ hist.u.grasp_center_quat_delta =
                    (IF cfg.rotation_ctrl_enabled THEN <<a[5], a[6], a[7], a[8]>>
                     ELSE <<1000, 0, 0, 0>>)
              /\ hist.u.l_fingers_ctrl = (IF cfg.fingers_ctrl_enabled THEN a[n - 1] ELSE -1000)
              /\ hist.u.r_fingers_ctrl = (IF cfg.fingers_ctrl_enabled THEN a[n] ELSE -1000)
              /\ hist.u.consumed = n
              /\ n = 4 + (IF cfg.rotation_ctrl_enabled THEN 4 ELSE 0)
                       + (IF cfg.fingers_ctrl_enabled THEN 2 ELSE 0)
    /\ \A sign \in {-1, 1} : \A ignore \in BOOLEAN :
          LET action == [i \in 1..27 |-> sign * 10 * i]
              r == MovingHandEnv_set_action([ignore_rotation_ctrl |-> ignore],
                                            initial_arm_mocap_pos, action)
          IN  /\ r.hand_ctrl = [i \in 1..20 |-> sign * 10 * i]
              /\ r.pos_delta = <<sign * 21, sign * 22, sign * 23>>
              /\ r.quat_delta = (IF ignore THEN <<0, 0, 0, 0>>
                                 ELSE <<sign * 24, sign * 25, sign * 26, sign * 27>>)
              /\ r.mocap_pos = VAdd(initial_arm_mocap_pos, r.pos_delta)

\* a step with rotation and finger control, all 10 entries read: the
\* orientation delta from entries 4-7, the finger commands from entries 8-9
C25_Witness ==
    /\ pc = "raised" /\ cfg.rotation_ctrl_enabled /\ cfg.fingers_ctrl_enabled
    /\ Len(args) = 10 /\ args[1] = 3000
    /\ hist.u.dist_between_grippers = 1000
    /\ hist.u.grasp_center_quat_delta = <<500, -500, 200, 0>>
    /\ hist.u.l_fingers_ctrl = -1000 /\ hist.u.r_fingers_ctrl = 1000

\* C26: for every action passed to step the gripper separation is a linear
\* map of the clipped action[0] into [0.05, 0.30], the two gripper position
\* targets are the target grasp centre offset by plus and minus half the
\* separation along its y axis, their distance is the separation, and the
\* assertion grasp_radius == separation / 2 never fails.
C26_GripperTargets ==
    /\ pc = "raised" => ret.obs # "AssertionError"
    /\ pc = "stepped" =>
          LET a0 == Clip(args[1], action_low, action_high)
              d == hist.dist_between_grippers
              c == Pos(hist.target)
              l == hist.targets[1]
              r == hist.targets[2]
          IN  /\ 50 <= d /\ d <= 300
              /\ 8 * (d - 50) = a0 + 1000
              /\ l[1] = c[1] /\ l[3] = c[3] /\ 2 * (l[2] - c[2]) = d
              /\ r[1] = c[1] /\ r[3] = c[3] /\ 2 * (c[2] - r[2]) = d
              /\ Norm(VSub(l, r)) = d

\* a step whose action[0] = 3 was clipped to 1: the grippers 0.30 m apart
C26_Witness ==
    /\ pc = "stepped" /\ args[1] = 3000
    /\ hist.dist_between_grippers = 300
    /\ hist.targets[1][2] - hist.targets[2][2] = 300

\* C30: a YumiConstrainedEnv constructed with rotation_ctrl=True can complete
\* a step: the constructor gives the environment, and for every action of its
\* declared action space step, on the state reset leaves, returns and does
\* not raise.
C30_RotationCtrlStepReturns ==
    (cfg.kind = "YumiConstrainedEnv" /\ cfg.rotation_ctrl_enabled /\ pc # "new") =>
        /\ pc = "constructed"
        /\ \A s \in reset_states(cfg) : \A action \in StepActions(cfg) :
              YumiConstrainedEnv_step(cfg, s, ConstrainedPos(0), action).raised = None


\* C27: MovingHandEnv._sample_goal sets the orientation part of the goal to
\* all zeros when rotation goals are disabled (ignore_target_rotation=True)
\* and to a non-zero target orientation when they are enabled.
C27_GoalOrientation ==
    (cfg.kind = "MovingHandEnv" /\ pc = "reset" /\ env.a.outcome = "True") =>
        ((SubSeq(env.a.goal, 4, 7) = <<0, 0, 0, 0>>) <=> cfg.ignore_target_rotation)


\* C28: in an environment configured without an object (valid flags, the
\* snapshot file there if asked for) every object-relative accessor
\* (get_object_contact_points, _get_object_pose) fails with an error, while
\* _get_obs succeeds: the environment is there to be called, and the calls
\* end this way.
C28_ObjectAccessorsFail ==
    (pc # "new" /\ cfg.kind = "MovingHandEnv" /\ ~cfg.has_object /\ ~ArgInvalidFlags
        /\ ~(cfg.grasp_state = "True" /\ ~args.file_exists)) =>
        /\ pc # "raised"
        /\ pc = "accessed" =>
              IF hist.accessor = "_get_obs" THEN hist.outcome = "obs"
              ELSE hist.outcome \in {"NotImplementedError", "ValueError"}

====
